---- MODULE Spec2Model ----
(***************************************************************************)
(* Verification model of the background text-to-speech pipeline of the     *)
(* Cardputer assistant firmware (src/OpenAssistant.ino): the foreground    *)
(* control flow (loop / readPromptFromKeyboard /                           *)
(* viewAssistantReplyInteractive), the worker task (ttsWorkerTask), the    *)
(* downloader (downloadTtsAudio), the streaming player (playTtsFromSD)     *)
(* and the status relay (postTtsStatus / pumpTtsStatus).                   *)
(*                                                                         *)
(* The foreground and every worker task are FreeRTOS tasks of equal        *)
(* priority; a step of the model is one block of statements of one task,   *)
(* cut at the reads and writes of the shared flags.                        *)
(***************************************************************************)
EXTENDS Integers, Sequences, FiniteSets, TLC

\* ------------------------------------------------------------------ bounds
MaxTasks    == 3      \* worker tasks that can exist at the same time
MaxLaunches == 3      \* worker tasks created in one run
MaxReplies  == 2      \* assistant replies produced in one run
MaxBody     == 4      \* largest response body, in bytes
MaxChunks   == 2      \* most chunks of a chunked body, the last one apart
MaxOps      == 2      \* most busy operations of one context (indicator runs)

\* ------------------------------------------------------- program constants
CHUNK_BYTES      == 2     \* player chunk size (scaled: 16384..4096, always even)
BUF_SIZE         == 2     \* downloader read size (scaled: 1024)
BUFFER_COUNT     == 3
SPEAKER_QUEUE    == 2     \* wav slots of one speaker channel
TTS_VOLUME_STEP  == 16
TTS_CACHE_PATH   == "/tts_cache/last.pcm"
NoPath           == ""
NoText           == <<>>

FG      == 0
Tasks   == 1..MaxTasks
Callers == {FG} \cup Tasks

Min(a, b) == IF a < b THEN a ELSE b

\* The bytes 0 .. n-1 of a file or a body, in order.
Ramp(n) == [i \in 1..n |-> i - 1]

\* ------------------------------------------------------------ sanitizeForTts
\* Characters are classes of the bytes the function distinguishes:
\* printable ASCII letters, ASCII white space, an accented letter that
\* handleFolded folds ("a'" stands for U+00E1), any other code point ("?").
IsSpaceChar(c) == c \in {" ", "?"}
FoldChar(c)    == IF c = "a'" THEN "a" ELSE c

RECURSIVE SanitizeFrom(_, _, _)
SanitizeFrom(input, out, lastWasSpace) ==
  IF input = <<>> THEN out
  ELSE LET c == Head(input) IN
       IF IsSpaceChar(c)
       THEN IF ~lastWasSpace /\ Len(out) > 0
            THEN SanitizeFrom(Tail(input), Append(out, " "), TRUE)
            ELSE SanitizeFrom(Tail(input), out, lastWasSpace)
       ELSE SanitizeFrom(Tail(input), Append(out, FoldChar(c)), FALSE)

RECURSIVE TrimRight(_)
TrimRight(s) ==
  IF s # <<>> /\ s[Len(s)] = " " THEN TrimRight(SubSeq(s, 1, Len(s) - 1)) ELSE s

sanitizeForTts(input) ==
  LET s == TrimRight(SanitizeFrom(input, <<>>, TRUE)) IN
  IF s = <<>> THEN <<"response unavailable">> ELSE s

\* Replies the model request can return.
Replies == { <<" ", "a'">>, <<"b">> }

\* ------------------------------------------------------------------- state
VARIABLES
  lastAssistantReply,
  ttsCachedText, ttsCachedPath, ttsAudioReady,        \* Cache Entry
  ttsBusy, ttsCancelRequested, ttsPauseRequested,
  ttsPaused, ttsPlaybackActive, ttsPrefetchPending,   \* Worker State
  ttsResumeOffset, ttsResumePath,                     \* Playback Cursor
  ttsTaskHandle,
  ttsVolume,
  ttsPendingStatus, ttsStatusDirty, statusBaseLine,   \* Status Relay, display
  sdMounted, sdFile,                                  \* storage
  speaker,                                            \* hardware output queue
  fgpc, call, task,                                   \* control state
  hist                                                \* history of the run

cacheVars  == <<ttsCachedText, ttsCachedPath, ttsAudioReady>>
flagVars   == <<ttsBusy, ttsCancelRequested, ttsPauseRequested,
                ttsPaused, ttsPlaybackActive, ttsPrefetchPending>>
cursorVars == <<ttsResumeOffset, ttsResumePath>>
statusVars == <<ttsPendingStatus, ttsStatusDirty, statusBaseLine>>
sdVars     == <<sdMounted, sdFile>>

vars == <<lastAssistantReply, cacheVars, flagVars, cursorVars, ttsTaskHandle,
          ttsVolume, statusVars, sdVars, speaker, fgpc, call, task, hist>>

\* The cache file on the card: the text its bytes were synthesized for, the
\* number of bytes written and the length of the body it was meant to hold.
NoFile == [exists |-> FALSE, text |-> NoText, size |-> 0, want |-> 0]

FileComplete(f) == f.exists /\ f.size = f.want

NoCall == [pc |-> "none", text |-> NoText, useCache |-> FALSE, play |-> FALSE,
           path |-> NoPath, off |-> 0]

NoSnap == <<FALSE, NoText, NoPath>>

DeadTask == [pc |-> "dead",
             ctx |-> [sanitizedText |-> NoText, useCache |-> FALSE,
                      cachedPath |-> NoPath, playAfterDownload |-> FALSE,
                      startOffset |-> 0],
             audioPath |-> NoPath, readyToPlay |-> FALSE,
             \* downloadTtsAudio: the open file, the connection, the body
             handle |-> "none", conn |-> FALSE, body |-> 0, sent |-> 0,
             ok |-> FALSE,
             \* playTtsFromSD
             pos |-> 0, alloc |-> 0,
             inUse |-> [i \in 1..BUFFER_COUNT |-> FALSE],
             inFlightOrder |-> <<>>, recordedInFlight |-> 0,
             firstChunk |-> FALSE, fileDone |-> FALSE,
             pausePending |-> FALSE, paused |-> FALSE, cancelled |-> FALSE,
             chunk |-> <<>>, success |-> FALSE,
             launchPending |-> FALSE,
             \* history: cancel requests by phase (cancelUnread: in the
             \* download, before a byte of the body was read; kept while
             \* downloadTtsAudio runs), the Cache Entry and file
             \* at launch and at the start of playback, foreign writes since,
             \* a download of audio the card already held complete, the launch
             \* by an exiting task (late: while the foreground was between
             \* its read of ttsBusy and its write of a request)
             cancelDl |-> FALSE, cancelPlay |-> FALSE, cancelAny |-> FALSE,
             cancelUnread |-> FALSE,
             touched |-> FALSE,
             again |-> FALSE, chained |-> FALSE, late |-> FALSE,
             snapPre |-> NoSnap, snapPlay |-> <<NoSnap, NoFile>>,
             end |-> "none"]

\* hist.status: the run records the status texts. Nothing but the display
\* reads the relay and the status line, so a run that does not observe them
\* leaves them as they start.
\* hist.launches, hist.replies: the tasks and the replies the run may still
\* create. hist.tasks: the tasks that can exist at the same time.
\* hist.io: a response body handed to one of the body readers on its own, and
\* what the reader made of it.
NoIo == [kind |-> "none", data |-> <<>>, bursts |-> <<>>, close |-> FALSE,
         len |-> 0, chunks |-> <<>>, tail |-> <<>>,
         done |-> FALSE, ok |-> FALSE, written |-> <<>>, used |-> 0]

\* hist.led: the busy indicator taken on its own. ledAvailable and
\* ledBusyDepth (2098-2101), and for each context that calls ledEnterBusy and
\* ledExitBusy its place (pc), the value of ledBusyDepth it has loaded (reg)
\* and the operations it may still start (ops).
LedUsers == {"loop", "worker"}

NoLed == [ledAvailable |-> TRUE, ledBusyDepth |-> 0,
          pc |-> [u \in LedUsers |-> "idle"],
          reg |-> [u \in LedUsers |-> 0],
          ops |-> [u \in LedUsers |-> MaxOps]]

NoHist == [launches |-> MaxLaunches, replies |-> MaxReplies,
           tasks |-> MaxTasks, played |-> <<>>,
           volPrev |-> 255, volDelta |-> 0, status |-> TRUE, io |-> NoIo,
           led |-> NoLed]

InitWith(h) ==
  /\ lastAssistantReply = NoText
  /\ ttsCachedText = NoText /\ ttsCachedPath = NoPath /\ ttsAudioReady = FALSE
  /\ ttsBusy = FALSE /\ ttsCancelRequested = FALSE /\ ttsPauseRequested = FALSE
  /\ ttsPaused = FALSE /\ ttsPlaybackActive = FALSE /\ ttsPrefetchPending = FALSE
  /\ ttsResumeOffset = 0 /\ ttsResumePath = NoPath
  /\ ttsTaskHandle = 0
  /\ ttsVolume = 255
  /\ ttsPendingStatus = "" /\ ttsStatusDirty = FALSE
  /\ statusBaseLine = "Ready. Type prompt."
  /\ sdMounted = FALSE /\ sdFile = NoFile
  /\ speaker = 0
  /\ fgpc = "top"
  /\ call = [c \in Callers |-> NoCall]
  /\ task = [w \in Tasks |-> DeadTask]
  /\ hist = h

Init == InitWith(NoHist)

\* ------------------------------------------------------------ status relay
\* postTtsStatus: the relay slot when called by the task ttsTaskHandle names,
\* the display otherwise.
lcdStatusLine(msg) ==
  statusBaseLine' = (IF hist.status THEN msg ELSE statusBaseLine)

postTtsStatus(c, msg) ==
  IF ~hist.status THEN UNCHANGED statusVars
  ELSE IF c # FG /\ ttsTaskHandle = c
  THEN /\ ttsPendingStatus' = msg
       /\ ttsStatusDirty' = TRUE
       /\ UNCHANGED statusBaseLine
  ELSE /\ statusBaseLine' = msg
       /\ UNCHANGED <<ttsPendingStatus, ttsStatusDirty>>

\* ------------------------------------------------------------------ volume
ClampVolume(v) == IF v < 0 THEN 0 ELSE IF v > 255 THEN 255 ELSE v

\* The clamp left out: the sum is stored in the uint8_t as it is.
adjustTtsVolumeUnclamped(delta) ==
  /\ ttsVolume' = (ttsVolume + delta) % 256
  /\ lcdStatusLine("Volume")
  /\ hist' = [hist EXCEPT !.volPrev = ttsVolume, !.volDelta = delta]
  /\ UNCHANGED <<lastAssistantReply, cacheVars, flagVars, cursorVars,
                 ttsTaskHandle, ttsPendingStatus, ttsStatusDirty, sdVars,
                 speaker, fgpc, call, task>>

\* adjustTtsVolume (3023-3032): the sum is an int, clamped, then stored in the
\* uint8_t ttsVolume.
adjustTtsVolume(delta) ==
  /\ ttsVolume' = ClampVolume(ttsVolume + delta) % 256
  /\ lcdStatusLine("Volume")
  /\ hist' = [hist EXCEPT !.volPrev = ttsVolume, !.volDelta = delta]
  /\ UNCHANGED <<lastAssistantReply, cacheVars, flagVars, cursorVars,
                 ttsTaskHandle, ttsPendingStatus, ttsStatusDirty, sdVars,
                 speaker, fgpc, call, task>>

\* ----------------------------------------------------------------- storage
\* SD.end() (unmountSD) and SD.remove() end the session of every open handle:
\* later writes through it do not reach the card, later reads return nothing.
DropHandles(except) ==
  [w \in Tasks |->
     IF w # except /\ task[w].handle \in {"write", "read"}
     THEN [task[w] EXCEPT !.handle = "lost"] ELSE task[w]]

\* ------------------------------------------------- startTtsPrefetch (3425)
\* Lines 3426-3438, up to the call of startTtsTask. isMuted is never set.
startTtsPrefetch(c, reply) ==
  /\ call[c].pc = "none"
  /\ IF reply = NoText
     THEN UNCHANGED <<ttsPauseRequested, ttsPaused, call>>
     ELSE /\ ttsPauseRequested' = FALSE
          /\ ttsPaused' = FALSE
          /\ IF ttsBusy
             THEN call' = [call EXCEPT ![c] = [NoCall EXCEPT !.pc = "pf_mark"]]
             ELSE call' = [call EXCEPT ![c] =
                       [pc |-> "task_chk", text |-> sanitizeForTts(reply),
                        useCache |-> ttsAudioReady /\ ttsCachedPath # NoPath
                                     /\ sanitizeForTts(reply) = ttsCachedText,
                        play |-> FALSE, path |-> ttsCachedPath, off |-> 0]]

\* Line 3438 is reached when the reply is not empty and no job is running.
PrefetchClearsPending(reply) == reply # NoText /\ ~ttsBusy

\* Line 3431: the deferred request, written after ttsBusy was read at 3430.
PrefetchMark(c) ==
  /\ call[c].pc = "pf_mark"
  /\ ttsPrefetchPending' = TRUE
  /\ call' = [call EXCEPT ![c] = NoCall]
  /\ UNCHANGED <<lastAssistantReply, cacheVars, ttsBusy, ttsCancelRequested,
                 ttsPauseRequested, ttsPaused, ttsPlaybackActive, cursorVars,
                 ttsTaskHandle, ttsVolume, statusVars, sdVars, speaker, fgpc,
                 task, hist>>

\* ----------------------------------------------------- startTtsTask (3346)
\* Lines 3347-3356: the admission check and the already-cached shortcut.
TaskCheck(c) ==
  /\ call[c].pc = "task_chk"
  /\ IF ttsBusy
     THEN /\ call' = [call EXCEPT ![c] = NoCall]
          /\ UNCHANGED <<ttsAudioReady, statusVars>>
     ELSE IF ~call[c].play /\ call[c].useCache
     THEN /\ ttsAudioReady' = TRUE
          /\ postTtsStatus(c, "Voice ready")
          /\ call' = [call EXCEPT ![c] = NoCall]
     ELSE /\ call' = [call EXCEPT ![c].pc = "task_set"]
          /\ UNCHANGED <<ttsAudioReady, statusVars>>
  /\ UNCHANGED <<lastAssistantReply, ttsCachedText, ttsCachedPath, flagVars,
                 cursorVars, ttsTaskHandle, ttsVolume, sdVars, speaker, fgpc,
                 task, hist>>

\* The foreground has read ttsBusy and is about to write its request: lines
\* 4821-4822, 4764-4765, 5278-5279 and 3472-3478.
RequestPcs == {"cancel_wr", "enter_wr", "reply_cancel", "pause_wr"}

FreeSlots == {w \in 1..hist.tasks : task[w].pc = "dead"}

NewTask(j) ==
  [DeadTask EXCEPT !.pc = "start",
                   !.ctx = [sanitizedText |-> j.text, useCache |-> j.useCache,
                            cachedPath |-> j.path,
                            playAfterDownload |-> j.play,
                            startOffset |-> j.off]]

LaunchStatus(j) ==
  IF j.play
  THEN IF j.off > 0 THEN "Voice resuming"
       ELSE IF j.useCache THEN "Voice playing" ELSE "Voice loading"
  ELSE "Caching voice"

\* Lines 3366-3380: the flags startTtsTask sets before it creates the task.
LaunchFlags(j) ==
  /\ ttsCancelRequested' = FALSE
  /\ ttsPaused' = FALSE
  /\ ttsPauseRequested' = FALSE
  /\ ttsResumeOffset' = (IF j.play /\ j.off # 0 THEN j.off ELSE 0)
  /\ ttsResumePath' = (IF j.play /\ j.off # 0 THEN j.path ELSE NoPath)
  /\ ttsPlaybackActive' = j.play

\* Lines 3358-3422 with xTaskCreatePinnedToCore returning pdPASS.
TaskCreate(c) ==
  /\ call[c].pc = "task_set"
  /\ hist.launches > 0
  /\ FreeSlots # {}
  /\ LET w == CHOOSE x \in FreeSlots : \A y \in FreeSlots : x <= y IN
       /\ LaunchFlags(call[c])
       /\ ttsBusy' = TRUE
       /\ ttsTaskHandle' = w
       /\ task' = [task EXCEPT ![w] = [NewTask(call[c]) EXCEPT
                      !.chained = (c # FG),
                      !.late = (call[FG].pc \in RequestPcs),
                      !.snapPre = <<ttsAudioReady, ttsCachedText, ttsCachedPath>>]]
       /\ lcdStatusLine(LaunchStatus(call[c]))
  /\ call' = [call EXCEPT ![c] = NoCall]
  /\ hist' = [hist EXCEPT !.launches = @ - 1]
  /\ UNCHANGED <<lastAssistantReply, cacheVars, ttsPrefetchPending, ttsVolume,
                 ttsPendingStatus, ttsStatusDirty, sdVars, speaker, fgpc>>

\* Lines 3358-3410 with the task creation failing (no memory for the stack).
TaskCreateFails(c) ==
  /\ call[c].pc = "task_set"
  /\ LaunchFlags(call[c])
  /\ ttsBusy' = FALSE
  /\ ttsTaskHandle' = 0
  /\ lcdStatusLine("Voice error")
  /\ call' = [call EXCEPT ![c] = NoCall]
  /\ UNCHANGED <<lastAssistantReply, cacheVars, ttsPrefetchPending, ttsVolume,
                 ttsPendingStatus, ttsStatusDirty, sdVars, speaker, fgpc, task,
                 hist>>

\* ---------------------------------------------- speakLastAssistantReply (3516)
\* The busy check of line 3521 left out.
speakUnchecked ==
  IF lastAssistantReply = NoText
  THEN /\ postTtsStatus(FG, "No voice text")
       /\ UNCHANGED call
  ELSE /\ call' = [call EXCEPT ![FG] =
             [pc |-> "task_chk", text |-> sanitizeForTts(lastAssistantReply),
              useCache |-> ttsAudioReady /\ ttsCachedPath # NoPath
                           /\ sanitizeForTts(lastAssistantReply) = ttsCachedText,
              play |-> TRUE, path |-> ttsCachedPath, off |-> 0]]
       /\ UNCHANGED statusVars

\* The test of ttsPaused (3536) left out.
speakIgnoresPaused ==
  IF ttsBusy
  THEN /\ postTtsStatus(FG, "Voice busy")
       /\ UNCHANGED call
  ELSE IF lastAssistantReply = NoText
  THEN /\ postTtsStatus(FG, "No voice text")
       /\ UNCHANGED call
  ELSE LET sanitizedReply == sanitizeForTts(lastAssistantReply)
           useCache == ttsAudioReady /\ ttsCachedPath # NoPath
                       /\ sanitizedReply = ttsCachedText
           startOffset == IF useCache /\ ttsResumeOffset > 0
                             /\ ttsResumePath # NoPath
                             /\ ttsResumePath = ttsCachedPath
                          THEN ttsResumeOffset ELSE 0
       IN /\ call' = [call EXCEPT ![FG] =
                [pc |-> "task_chk", text |-> sanitizedReply,
                 useCache |-> useCache, play |-> TRUE,
                 path |-> ttsCachedPath, off |-> startOffset]]
          /\ UNCHANGED statusVars

\* Lines 3517-3537, up to the call of startTtsTask.
speakLastAssistantReply ==
  IF ttsBusy
  THEN /\ postTtsStatus(FG, "Voice busy")
       /\ UNCHANGED call
  ELSE IF lastAssistantReply = NoText
  THEN /\ postTtsStatus(FG, "No voice text")
       /\ UNCHANGED call
  ELSE LET sanitizedReply == sanitizeForTts(lastAssistantReply)
           useCache == ttsAudioReady /\ ttsCachedPath # NoPath
                       /\ sanitizedReply = ttsCachedText
           startOffset == IF ttsPaused /\ useCache /\ ttsResumeOffset > 0
                             /\ ttsResumePath # NoPath
                             /\ ttsResumePath = ttsCachedPath
                          THEN ttsResumeOffset ELSE 0
       IN /\ call' = [call EXCEPT ![FG] =
                [pc |-> "task_chk", text |-> sanitizedReply,
                 useCache |-> useCache, play |-> TRUE,
                 path |-> ttsCachedPath, off |-> startOffset]]
          /\ UNCHANGED statusVars

InView == fgpc = "view" /\ call[FG].pc = "none"

\* Key 'v' of viewAssistantReplyInteractive (4812-4813).
KeySpeak ==
  /\ InView
  /\ speakLastAssistantReply
  /\ UNCHANGED <<lastAssistantReply, cacheVars, flagVars, cursorVars,
                 ttsTaskHandle, ttsVolume, sdVars, speaker, fgpc, task, hist>>

\* ------------------------------------------------- history of cancel requests
DownloadPcs == {"dl_open", "dl_connect", "dl_status", "dl_body", "dl_close"}
PlayPcs     == {"play_open", "pl_top", "pl_fill", "pl_submit", "pl_end"}
SincePlayPcs == PlayPcs \cup {"post_play", "exit", "exit_flags"}
\* The job of a task: from its creation to the release of ttsBusy.
RunPcs      == {"start", "dl_check", "commit", "decide", "post_play", "exit"}
                 \cup DownloadPcs \cup PlayPcs

\* A cancel request reaches the tasks that exist; the history keeps the phase
\* each of them was in.
NoteCancel(t) ==
  [w \in Tasks |->
     IF t[w].pc \in DownloadPcs
     THEN [t[w] EXCEPT !.cancelDl = TRUE, !.cancelAny = TRUE, !.late = FALSE,
                       !.cancelUnread = @ \/ (t[w].sent = 0)]
     ELSE IF t[w].pc \in PlayPcs
     THEN [t[w] EXCEPT !.cancelPlay = TRUE, !.cancelAny = TRUE, !.late = FALSE]
     ELSE IF t[w].pc \in RunPcs
     THEN [t[w] EXCEPT !.cancelAny = TRUE, !.late = FALSE]
     ELSE [t[w] EXCEPT !.late = FALSE]]

\* The foreground wrote the Cache Entry or the file under a playing task.
NoteTouch(t) ==
  [w \in Tasks |-> IF t[w].pc \in SincePlayPcs
                   THEN [t[w] EXCEPT !.touched = TRUE]
                   ELSE t[w]]

\* ------------------------------------- viewAssistantReplyInteractive: 'c'
\* The resets of the idle branch (4831-4833) left out.
KeyCancelKeepsPause ==
  /\ InView
  /\ IF ttsBusy
     THEN /\ call' = [call EXCEPT ![FG].pc = "cancel_wr"]
          /\ UNCHANGED statusVars
     ELSE /\ postTtsStatus(FG, "Voice idle")
          /\ UNCHANGED call
  /\ UNCHANGED <<lastAssistantReply, cacheVars, flagVars, cursorVars,
                 ttsTaskHandle, ttsVolume, sdVars, speaker, fgpc, task, hist>>

\* Line 4821: the read of ttsBusy; the idle branch (4830-4834) in one step.
KeyCancel ==
  /\ InView
  /\ IF ttsBusy
     THEN /\ call' = [call EXCEPT ![FG].pc = "cancel_wr"]
          /\ UNCHANGED <<ttsPaused, ttsPauseRequested, cursorVars, statusVars>>
     ELSE /\ ttsPaused' = FALSE
          /\ ttsPauseRequested' = FALSE
          /\ ttsResumeOffset' = 0
          /\ ttsResumePath' = NoPath
          /\ postTtsStatus(FG, "Voice idle")
          /\ UNCHANGED call
  /\ UNCHANGED <<lastAssistantReply, cacheVars, ttsBusy, ttsCancelRequested,
                 ttsPlaybackActive, ttsPrefetchPending, ttsTaskHandle,
                 ttsVolume, sdVars, speaker, fgpc, task, hist>>

\* Lines 4822-4828: the cancel request.
CancelWrite ==
  /\ call[FG].pc = "cancel_wr"
  /\ ttsCancelRequested' = TRUE
  /\ ttsPauseRequested' = FALSE
  /\ ttsPaused' = FALSE
  /\ ttsResumeOffset' = 0
  /\ ttsResumePath' = NoPath
  /\ speaker' = 0
  /\ postTtsStatus(FG, "Voice stopping")
  /\ call' = [call EXCEPT ![FG] = NoCall]
  /\ task' = NoteCancel(task)
  /\ UNCHANGED <<lastAssistantReply, cacheVars, ttsBusy, ttsPlaybackActive,
                 ttsPrefetchPending, ttsTaskHandle, ttsVolume, sdVars, fgpc,
                 hist>>

\* ------------------------------------------------------ resumeTtsIfPaused
\* The test of ttsPaused (3483) left out.
resumeUnguarded ==
  IF ttsBusy
  THEN UNCHANGED <<ttsPaused, cursorVars, statusVars, call>>
  ELSE IF ~ttsAudioReady \/ ttsCachedPath = NoPath
  THEN /\ ttsPaused' = FALSE
       /\ ttsResumeOffset' = 0
       /\ ttsResumePath' = NoPath
       /\ postTtsStatus(FG, "Voice not ready")
       /\ UNCHANGED call
  ELSE /\ speakLastAssistantReply
       /\ UNCHANGED <<ttsPaused, cursorVars>>

\* Lines 3482-3497, up to the call of startTtsTask in
\* speakLastAssistantReply.
resumeTtsIfPaused ==
  IF ~ttsPaused
  THEN UNCHANGED <<ttsPaused, cursorVars, statusVars, call>>
  ELSE IF ttsBusy
  THEN UNCHANGED <<ttsPaused, cursorVars, statusVars, call>>
  ELSE IF ~ttsAudioReady \/ ttsCachedPath = NoPath
  THEN /\ ttsPaused' = FALSE
       /\ ttsResumeOffset' = 0
       /\ ttsResumePath' = NoPath
       /\ postTtsStatus(FG, "Voice not ready")
       /\ UNCHANGED call
  ELSE /\ speakLastAssistantReply
       /\ UNCHANGED <<ttsPaused, cursorVars>>

\* ------------------------------------- viewAssistantReplyInteractive: 'p'
\* Lines 4843-4852 with requestTtsPause (3471-3477) up to its write of
\* ttsPauseRequested.
KeyPause ==
  /\ InView
  /\ IF ttsBusy /\ ttsPlaybackActive
     THEN /\ IF ~ttsPauseRequested /\ speaker > 0
             THEN call' = [call EXCEPT ![FG].pc = "pause_wr"]
             ELSE UNCHANGED call
          /\ UNCHANGED <<ttsPaused, cursorVars, statusVars>>
     ELSE IF ttsPaused
     THEN resumeTtsIfPaused
     ELSE /\ postTtsStatus(FG, IF ttsBusy THEN "Voice loading" ELSE "Voice idle")
          /\ UNCHANGED <<ttsPaused, cursorVars, call>>
  /\ UNCHANGED <<lastAssistantReply, cacheVars, ttsBusy, ttsCancelRequested,
                 ttsPauseRequested, ttsPlaybackActive, ttsPrefetchPending,
                 ttsTaskHandle, ttsVolume, sdVars, speaker, fgpc, task, hist>>

\* Lines 3478-3479.
PauseWrite ==
  /\ call[FG].pc = "pause_wr"
  /\ ttsPauseRequested' = TRUE
  /\ postTtsStatus(FG, "Voice pausing")
  /\ call' = [call EXCEPT ![FG] = NoCall]
  /\ UNCHANGED <<lastAssistantReply, cacheVars, ttsBusy, ttsCancelRequested,
                 ttsPaused, ttsPlaybackActive, ttsPrefetchPending, cursorVars,
                 ttsTaskHandle, ttsVolume, sdVars, speaker, fgpc, task, hist>>

\* ------------------------------------- viewAssistantReplyInteractive: ENTER
\* Line 4764: the read of the flags; without a job to cancel the view returns
\* and loop writes its status line (5293).
KeyEnter ==
  /\ InView
  /\ IF ttsBusy /\ ~ttsPlaybackActive
     THEN /\ call' = [call EXCEPT ![FG].pc = "enter_wr"]
          /\ UNCHANGED <<fgpc, statusBaseLine>>
     ELSE /\ fgpc' = "top"
          /\ lcdStatusLine("Done. ENTER new prompt.")
          /\ UNCHANGED call
  /\ UNCHANGED <<lastAssistantReply, cacheVars, flagVars, cursorVars,
                 ttsTaskHandle, ttsVolume, ttsPendingStatus, ttsStatusDirty,
                 sdVars, speaker, task, hist>>

\* Lines 4765-4770, then line 5293.
EnterWrite ==
  /\ call[FG].pc = "enter_wr"
  /\ ttsCancelRequested' = TRUE
  /\ ttsPauseRequested' = FALSE
  /\ ttsPrefetchPending' = FALSE
  /\ postTtsStatus(FG, "Done. ENTER new prompt.")
  /\ call' = [call EXCEPT ![FG] = NoCall]
  /\ fgpc' = "top"
  /\ task' = NoteCancel(task)
  /\ UNCHANGED <<lastAssistantReply, cacheVars, ttsBusy, ttsPaused,
                 ttsPlaybackActive, cursorVars, ttsTaskHandle, ttsVolume,
                 sdVars, speaker, hist>>

\* --------------------------------------------------------- clearTtsCache
\* readPromptFromKeyboard (4898-4902) starts with clearTtsCache (3499-3514).
clearTtsCache ==
  /\ fgpc = "top"
  /\ ttsAudioReady' = FALSE
  /\ ttsCachedText' = NoText
  /\ ttsCachedPath' = NoPath
  /\ ttsPaused' = FALSE
  /\ ttsPauseRequested' = FALSE
  /\ ttsResumeOffset' = 0
  /\ ttsResumePath' = NoPath
  /\ ttsPlaybackActive' = FALSE
  /\ sdFile' = NoFile
  /\ sdMounted' = FALSE
  /\ task' = NoteTouch(DropHandles(FG))
  /\ fgpc' = "prompt"
  /\ hist' = [hist EXCEPT !.played =
                IF \E w \in Tasks : task[w].ctx.playAfterDownload
                THEN @ ELSE <<>>]
  /\ lcdStatusLine("Type. ENTER=send")
  /\ UNCHANGED <<lastAssistantReply, ttsBusy, ttsCancelRequested,
                 ttsPrefetchPending, ttsTaskHandle, ttsVolume, ttsPendingStatus,
                 ttsStatusDirty, speaker, call>>

\* ------------------------------------------------------------------ loop
\* loop (5218-5278): the prompt is sent, callOpenAI (4405-4529) returns a
\* reply, the Cache Entry is invalidated and ttsBusy is read (5278).
NewReply(reply) ==
  /\ fgpc = "prompt"
  /\ hist.replies > 0
  /\ lastAssistantReply' = reply
  /\ ttsAudioReady' = FALSE
  /\ ttsCachedText' = NoText
  /\ ttsCachedPath' = NoPath
  /\ sdMounted' = FALSE
  /\ task' = [w \in Tasks |->
               [NoteTouch(DropHandles(FG))[w] EXCEPT !.conn = FALSE]]
  /\ fgpc' = "reply"
  /\ call' = [call EXCEPT ![FG].pc = IF ttsBusy THEN "reply_cancel" ELSE "none"]
  /\ hist' = [hist EXCEPT !.replies = @ - 1]
  /\ lcdStatusLine("Querying OpenAI...")
  /\ UNCHANGED <<flagVars, cursorVars, ttsTaskHandle, ttsVolume,
                 ttsPendingStatus, ttsStatusDirty, sdFile, speaker>>

\* Line 5279.
ReplyCancel ==
  /\ call[FG].pc = "reply_cancel"
  /\ ttsCancelRequested' = TRUE
  /\ call' = [call EXCEPT ![FG] = NoCall]
  /\ task' = NoteCancel(task)
  /\ UNCHANGED <<lastAssistantReply, cacheVars, ttsBusy, ttsPauseRequested,
                 ttsPaused, ttsPlaybackActive, ttsPrefetchPending, cursorVars,
                 ttsTaskHandle, ttsVolume, statusVars, sdVars, speaker, fgpc,
                 hist>>

\* Line 5286, then the reply view opens (5289-5290).
ReplyPrefetch ==
  /\ fgpc = "reply"
  /\ startTtsPrefetch(FG, lastAssistantReply)
  /\ ttsPrefetchPending' = (IF PrefetchClearsPending(lastAssistantReply)
                            THEN FALSE ELSE ttsPrefetchPending)
  /\ fgpc' = "view"
  /\ UNCHANGED <<lastAssistantReply, cacheVars, ttsBusy, ttsCancelRequested,
                 ttsPlaybackActive, cursorVars, ttsTaskHandle,
                 ttsVolume, statusVars, sdVars, speaker, task, hist>>

\* loop (5220-5266): an empty prompt returns to the prompt, which clears the
\* cache again.
PromptAgain ==
  /\ fgpc = "prompt"
  /\ fgpc' = "top"
  /\ lcdStatusLine("Empty. Type again.")
  /\ UNCHANGED <<lastAssistantReply, cacheVars, flagVars, cursorVars,
                 ttsTaskHandle, ttsVolume, ttsPendingStatus, ttsStatusDirty,
                 sdVars, speaker, call, task, hist>>

\* pumpTtsStatus (3455-3469), called by both foreground loops.
pumpTtsStatus ==
  /\ fgpc \in {"prompt", "view"}
  /\ call[FG].pc = "none"
  /\ ttsStatusDirty
  /\ ttsStatusDirty' = FALSE
  /\ statusBaseLine' = (IF ttsPendingStatus # "" THEN ttsPendingStatus
                        ELSE statusBaseLine)
  /\ UNCHANGED <<lastAssistantReply, cacheVars, flagVars, cursorVars,
                 ttsTaskHandle, ttsVolume, ttsPendingStatus, sdVars, speaker,
                 fgpc, call, task, hist>>

\* =========================================================== ttsWorkerTask
Upd(w, r) == task' = [task EXCEPT ![w] = r]

\* unmountSD (2474-2483) called by task w: SD.end() unless already unmounted.
UnmountBy(w, t) == IF sdMounted THEN [x \in Tasks |->
                       IF x # w /\ t[x].handle \in {"write", "read"}
                       THEN [t[x] EXCEPT !.handle = "lost"] ELSE t[x]]
                   ELSE t

\* The Cache Entry or the file was written by task w: the other tasks that
\* are playing see a foreign write.
TouchBy(w, t) ==
  [x \in Tasks |-> IF x # w /\ t[x].pc \in SincePlayPcs
                   THEN [t[x] EXCEPT !.touched = TRUE] ELSE t[x]]

\* SD.remove of the cache file, or SD.end() of a session task w has mounted
\* itself: the handles of the others are lost.
RemoveBy(w, t) ==
  [x \in Tasks |-> IF x # w /\ t[x].handle \in {"write", "read"}
                   THEN [t[x] EXCEPT !.handle = "lost"] ELSE t[x]]

\* The test of ctx->useCache (3277) left out: every job downloads.
WorkerStartDownloads(w) ==
  /\ task[w].pc = "start"
  /\ ttsCancelRequested' = FALSE
  /\ postTtsStatus(w, IF task[w].ctx.playAfterDownload
                      THEN "Voice loading" ELSE "Caching voice")
  /\ Upd(w, [task[w] EXCEPT !.pc = "dl_open",
                            !.audioPath = task[w].ctx.cachedPath,
                            !.readyToPlay = FALSE])
  /\ UNCHANGED <<lastAssistantReply, cacheVars, ttsBusy, ttsPauseRequested,
                 ttsPaused, ttsPlaybackActive, ttsPrefetchPending, cursorVars,
                 ttsTaskHandle, ttsVolume, sdVars, speaker, fgpc, call, hist>>

\* Lines 3263-3277.
WorkerStart(w) ==
  /\ task[w].pc = "start"
  /\ ttsCancelRequested' = FALSE
  /\ postTtsStatus(w, IF task[w].ctx.useCache
                      THEN (IF task[w].ctx.playAfterDownload
                            THEN "Voice playing" ELSE "Voice ready")
                      ELSE (IF task[w].ctx.playAfterDownload
                            THEN "Voice loading" ELSE "Caching voice"))
  /\ Upd(w, [task[w] EXCEPT
               !.pc = IF task[w].ctx.useCache THEN "decide" ELSE "dl_open",
               !.audioPath = task[w].ctx.cachedPath,
               !.readyToPlay = task[w].ctx.useCache])
  /\ UNCHANGED <<lastAssistantReply, cacheVars, ttsBusy, ttsPauseRequested,
                 ttsPaused, ttsPlaybackActive, ttsPrefetchPending, cursorVars,
                 ttsTaskHandle, ttsVolume, sdVars, speaker, fgpc, call, hist>>

\* ------------------------------------------------------- downloadTtsAudio
\* Lines 2850-2858 failing: the card does not mount.
DlStorageFails(w) ==
  /\ task[w].pc = "dl_open"
  /\ postTtsStatus(w, "Voice storage error")
  /\ Upd(w, [task[w] EXCEPT !.pc = "dl_check", !.ok = FALSE])
  /\ UNCHANGED <<lastAssistantReply, cacheVars, flagVars, cursorVars,
                 ttsTaskHandle, ttsVolume, sdVars, speaker, fgpc, call, hist>>

\* Lines 2850-2868: the old file is removed and a new one opened for writing.
DlOpen(w) ==
  /\ task[w].pc = "dl_open"
  /\ sdMounted' = TRUE
  /\ sdFile' = [exists |-> TRUE, text |-> task[w].ctx.sanitizedText,
                size |-> 0, want |-> 0]
  /\ task' = [TouchBy(w, RemoveBy(w, task)) EXCEPT
                ![w] = [task[w] EXCEPT !.pc = "dl_connect", !.handle = "write",
                          !.again = FileComplete(sdFile) /\ sdFile.want > 0
                             /\ sdFile.text = task[w].ctx.sanitizedText]]
  /\ hist' = [hist EXCEPT !.played = <<>>]
  /\ UNCHANGED <<lastAssistantReply, cacheVars, flagVars, cursorVars,
                 ttsTaskHandle, ttsVolume, statusVars, speaker, fgpc, call>>

\* httpsClient is one object: stop() ends the connection of any other user.
StopClientBy(w, t) ==
  [x \in Tasks |-> IF x # w THEN [t[x] EXCEPT !.conn = FALSE] ELSE t[x]]

\* Lines 2879-2888 with connect failing: the file stays, empty.
DlConnectFails(w) ==
  /\ task[w].pc = "dl_connect"
  /\ postTtsStatus(w, "Voice connect fail")
  /\ sdMounted' = FALSE
  /\ task' = [StopClientBy(w, UnmountBy(w, task)) EXCEPT
                ![w] = [task[w] EXCEPT !.pc = "dl_check", !.handle = "none",
                                       !.ok = FALSE]]
  /\ UNCHANGED <<lastAssistantReply, cacheVars, flagVars, cursorVars,
                 ttsTaskHandle, ttsVolume, sdFile, speaker, fgpc, call, hist>>

\* Lines 2879-2909: connected, request sent.
DlConnect(w) ==
  /\ task[w].pc = "dl_connect"
  /\ task' = [StopClientBy(w, task) EXCEPT
                ![w] = [task[w] EXCEPT !.pc = "dl_status", !.conn = TRUE]]
  /\ UNCHANGED <<lastAssistantReply, cacheVars, flagVars, cursorVars,
                 ttsTaskHandle, ttsVolume, statusVars, sdVars, speaker, fgpc,
                 call, hist>>

\* Lines 2947-2954: no header byte within the timeout. The file stays.
DlHeaderTimeout(w) ==
  /\ task[w].pc = "dl_status"
  /\ task[w].conn
  /\ postTtsStatus(w, "Voice timeout")
  /\ sdMounted' = FALSE
  /\ task' = [UnmountBy(w, task) EXCEPT
                ![w] = [task[w] EXCEPT !.pc = "dl_check", !.handle = "none",
                                       !.conn = FALSE, !.ok = FALSE]]
  /\ UNCHANGED <<lastAssistantReply, cacheVars, flagVars, cursorVars,
                 ttsTaskHandle, ttsVolume, sdFile, speaker, fgpc, call, hist>>

\* Lines 2959-2999: a status other than 200 (0 when the connection was closed
\* before a status line arrived). The file is removed if the card is mounted.
DlHttpError(w) ==
  /\ task[w].pc = "dl_status"
  /\ postTtsStatus(w, "Voice HTTP error")
  /\ sdFile' = (IF sdMounted THEN NoFile ELSE sdFile)
  /\ sdMounted' = FALSE
  /\ task' = [(IF sdMounted
               THEN TouchBy(w, RemoveBy(w, task)) ELSE task) EXCEPT
                ![w] = [task[w] EXCEPT !.pc = "dl_check", !.handle = "none",
                                       !.conn = FALSE, !.ok = FALSE,
                                       !.end = "http"]]
  /\ UNCHANGED <<lastAssistantReply, cacheVars, flagVars, cursorVars,
                 ttsTaskHandle, ttsVolume, speaker, fgpc, call, hist>>

\* Lines 2918-2966 with status 200 and a body of n bytes announced.
DlHeaders(w, n) ==
  /\ task[w].pc = "dl_status"
  /\ task[w].conn
  /\ sdFile' = (IF task[w].handle = "write"
                THEN [sdFile EXCEPT !.want = n] ELSE sdFile)
  /\ Upd(w, [task[w] EXCEPT !.pc = "dl_body", !.body = n, !.sent = 0])
  /\ UNCHANGED <<lastAssistantReply, cacheVars, flagVars, cursorVars,
                 ttsTaskHandle, ttsVolume, statusVars, sdMounted, speaker,
                 fgpc, call, hist>>

\* One iteration of the body loop (2752-2765, 2805-2813): up to BUF_SIZE
\* bytes are read and written; the result of file.write is not looked at.
DlRead(w) ==
  /\ task[w].pc = "dl_body"
  /\ task[w].conn
  /\ task[w].sent < task[w].body
  /\ LET n == Min(BUF_SIZE, task[w].body - task[w].sent) IN
       /\ sdFile' = (IF task[w].handle = "write"
                     THEN [sdFile EXCEPT !.size = @ + n] ELSE sdFile)
       /\ Upd(w, [task[w] EXCEPT !.sent = @ + n])
  /\ UNCHANGED <<lastAssistantReply, cacheVars, flagVars, cursorVars,
                 ttsTaskHandle, ttsVolume, statusVars, sdMounted, speaker,
                 fgpc, call, hist>>

\* The body is complete (2741-2743, 2785-2790); lines 3001-3020 with ok.
DlDone(w) ==
  /\ task[w].pc = "dl_body"
  /\ task[w].sent = task[w].body
  /\ sdMounted' = FALSE
  /\ task' = [UnmountBy(w, task) EXCEPT
                ![w] = [task[w] EXCEPT !.pc = "dl_check", !.handle = "none",
                                       !.conn = FALSE, !.ok = TRUE]]
  /\ UNCHANGED <<lastAssistantReply, cacheVars, flagVars, cursorVars,
                 ttsTaskHandle, ttsVolume, statusVars, sdFile, speaker, fgpc,
                 call, hist>>

\* The body stops short (timeout or connection closed); lines 3001-3016.
DlReadFails(w) ==
  /\ task[w].pc = "dl_body"
  /\ task[w].sent < task[w].body
  /\ postTtsStatus(w, "Voice read error")
  /\ sdFile' = (IF sdMounted THEN NoFile ELSE sdFile)
  /\ sdMounted' = FALSE
  /\ task' = [(IF sdMounted
               THEN TouchBy(w, RemoveBy(w, task)) ELSE task) EXCEPT
                ![w] = [task[w] EXCEPT !.pc = "dl_check", !.handle = "none",
                                       !.conn = FALSE, !.ok = FALSE]]
  /\ UNCHANGED <<lastAssistantReply, cacheVars, flagVars, cursorVars,
                 ttsTaskHandle, ttsVolume, speaker, fgpc, call, hist>>

\* Lines 3280-3284: the result of the download and the cancel flag are read.
DlCheck(w) ==
  /\ task[w].pc = "dl_check"
  /\ IF ~task[w].ok \/ ttsCancelRequested
     THEN /\ Upd(w, [task[w] EXCEPT !.pc = "decide", !.readyToPlay = FALSE,
                                    !.cancelUnread = FALSE])
          /\ IF ~ttsCancelRequested
             THEN postTtsStatus(w, "Voice error")
             ELSE UNCHANGED statusVars
     ELSE /\ Upd(w, [task[w] EXCEPT !.pc = "commit", !.cancelUnread = FALSE])
          /\ UNCHANGED statusVars
  /\ UNCHANGED <<lastAssistantReply, cacheVars, flagVars, cursorVars,
                 ttsTaskHandle, ttsVolume, sdVars, speaker, fgpc, call, hist>>

\* The commit without the write of the fingerprint (3286).
CommitNoFingerprint(w) ==
  /\ task[w].pc = "commit"
  /\ ttsCachedPath' = TTS_CACHE_PATH
  /\ ttsAudioReady' = TRUE
  /\ task' = [TouchBy(w, task) EXCEPT
                ![w] = [task[w] EXCEPT !.pc = "decide",
                                       !.audioPath = TTS_CACHE_PATH,
                                       !.readyToPlay = TRUE]]
  /\ UNCHANGED <<lastAssistantReply, ttsCachedText, flagVars, cursorVars,
                 ttsTaskHandle, ttsVolume, statusVars, sdVars, speaker, fgpc,
                 call, hist>>

\* Lines 3286-3290: the Cache Entry is committed.
Commit(w) ==
  /\ task[w].pc = "commit"
  /\ ttsCachedText' = task[w].ctx.sanitizedText
  /\ ttsCachedPath' = TTS_CACHE_PATH
  /\ ttsAudioReady' = TRUE
  /\ task' = [TouchBy(w, task) EXCEPT
                ![w] = [task[w] EXCEPT !.pc = "decide",
                                       !.audioPath = TTS_CACHE_PATH,
                                       !.readyToPlay = TRUE]]
  /\ UNCHANGED <<lastAssistantReply, flagVars, cursorVars, ttsTaskHandle,
                 ttsVolume, statusVars, sdVars, speaker, fgpc, call, hist>>

\* Lines 3294-3322 up to the call of playTtsFromSD; the download-only branch
\* (3316-3320) whole.
Decide(w) ==
  /\ task[w].pc = "decide"
  /\ IF task[w].readyToPlay /\ ~ttsCancelRequested
     THEN IF task[w].ctx.playAfterDownload
          THEN /\ Upd(w, [task[w] EXCEPT !.pc = "play_open",
                            !.snapPlay = <<<<ttsAudioReady, ttsCachedText,
                                             ttsCachedPath>>, sdFile>>])
               /\ UNCHANGED <<ttsPaused, ttsPlaybackActive, cursorVars,
                              statusVars>>
          ELSE /\ ttsPaused' = FALSE
               /\ ttsResumeOffset' = 0
               /\ ttsResumePath' = NoPath
               /\ ttsPlaybackActive' = FALSE
               /\ postTtsStatus(w, "Voice ready")
               /\ Upd(w, [task[w] EXCEPT !.pc = "exit"])
     ELSE /\ Upd(w, [task[w] EXCEPT !.pc = "exit"])
          /\ UNCHANGED <<ttsPaused, ttsPlaybackActive, cursorVars, statusVars>>
  /\ UNCHANGED <<lastAssistantReply, cacheVars, ttsBusy, ttsCancelRequested,
                 ttsPauseRequested, ttsPrefetchPending, ttsTaskHandle,
                 ttsVolume, sdVars, speaker, fgpc, call, hist>>

\* ---------------------------------------------------------- playTtsFromSD
\* freeBuffers left out: the buffers stay allocated.
keepBuffers(t) == t

\* freeBuffers (3081-3094): every buffer that holds memory is released.
freeBuffers(t) ==
  [t EXCEPT !.alloc = 0, !.inUse = [i \in 1..BUFFER_COUNT |-> FALSE]]

\* The return of playTtsFromSD with the file closed: its locals end.
Returned(t, how, ok) ==
  [t EXCEPT !.pc = "post_play", !.handle = "none", !.end = how,
            !.success = ok, !.paused = (how = "paused"),
            !.inFlightOrder = <<>>, !.recordedInFlight = 0, !.chunk = <<>>]

\* Lines 3037-3040: the card does not mount.
PlayStorageFails(w) ==
  /\ task[w].pc = "play_open"
  /\ postTtsStatus(w, "Voice storage error")
  /\ Upd(w, [Returned(task[w], "error", FALSE) EXCEPT
               !.pos = task[w].ctx.startOffset])
  /\ UNCHANGED <<lastAssistantReply, cacheVars, flagVars, cursorVars,
                 ttsTaskHandle, ttsVolume, sdVars, speaker, fgpc, call, hist>>

CanOpen(w) == sdFile.exists /\ task[w].audioPath = TTS_CACHE_PATH

\* Lines 3041-3067: the returns before the buffers are allocated.
PlayOpenReturns(w) ==
  /\ task[w].pc = "play_open"
  /\ ~CanOpen(w) \/ sdFile.size = 0 \/ task[w].ctx.startOffset >= sdFile.size
  /\ postTtsStatus(w, IF ~CanOpen(w) THEN "Voice file error"
                      ELSE IF sdFile.size = 0 THEN "Voice file empty"
                      ELSE "Voice done")
  /\ sdMounted' = FALSE
  /\ task' = [RemoveBy(w, task) EXCEPT
                ![w] = [Returned(task[w],
                          IF CanOpen(w) /\ sdFile.size > 0 THEN "done"
                          ELSE "error",
                          CanOpen(w) /\ sdFile.size > 0) EXCEPT
                          !.pos = task[w].ctx.startOffset]]
  /\ UNCHANGED <<lastAssistantReply, cacheVars, flagVars, cursorVars,
                 ttsTaskHandle, ttsVolume, sdFile, speaker, fgpc, call, hist>>

\* Lines 3096-3128: no candidate chunk size can be allocated. The buffers
\* that were got before the failure are released (3110).
PlayAllocFails(w) ==
  /\ task[w].pc = "play_open"
  /\ CanOpen(w) /\ sdFile.size > 0 /\ task[w].ctx.startOffset < sdFile.size
  /\ postTtsStatus(w, "Voice memory error")
  /\ sdMounted' = FALSE
  /\ \E got \in 0..(BUFFER_COUNT - 1) :
       task' = [RemoveBy(w, task) EXCEPT
                  ![w] = [Returned(freeBuffers([task[w] EXCEPT !.alloc = got]),
                                   "error", FALSE) EXCEPT
                            !.pos = task[w].ctx.startOffset]]
  /\ UNCHANGED <<lastAssistantReply, cacheVars, flagVars, cursorVars,
                 ttsTaskHandle, ttsVolume, sdFile, speaker, fgpc, call, hist>>

\* The seek to startOffset (3062-3067) left out: the file plays from byte 0.
PlayOpenNoSeek(w) ==
  /\ task[w].pc = "play_open"
  /\ CanOpen(w) /\ sdFile.size > 0 /\ task[w].ctx.startOffset < sdFile.size
  /\ sdMounted' = TRUE
  /\ speaker' = 0
  /\ Upd(w, [task[w] EXCEPT !.pc = "pl_top", !.handle = "read",
               !.pos = 0, !.alloc = BUFFER_COUNT, !.firstChunk = TRUE,
               !.fileDone = FALSE, !.pausePending = FALSE, !.paused = FALSE,
               !.cancelled = FALSE])
  /\ hist' = [hist EXCEPT !.played =
                IF task[w].ctx.startOffset = 0 THEN <<>> ELSE @]
  /\ UNCHANGED <<lastAssistantReply, cacheVars, flagVars, cursorVars,
                 ttsTaskHandle, ttsVolume, statusVars, sdFile, fgpc, call>>

\* Lines 3037-3141: file open at startOffset, buffers allocated, speaker
\* stopped.
PlayOpen(w) ==
  /\ task[w].pc = "play_open"
  /\ CanOpen(w) /\ sdFile.size > 0 /\ task[w].ctx.startOffset < sdFile.size
  /\ sdMounted' = TRUE
  /\ speaker' = 0
  /\ Upd(w, [task[w] EXCEPT !.pc = "pl_top", !.handle = "read",
               !.pos = task[w].ctx.startOffset, !.alloc = BUFFER_COUNT,
               !.firstChunk = TRUE,
               !.fileDone = FALSE, !.pausePending = FALSE, !.paused = FALSE,
               !.cancelled = FALSE])
  /\ hist' = [hist EXCEPT !.played =
                IF task[w].ctx.startOffset = 0 THEN <<>> ELSE @]
  /\ UNCHANGED <<lastAssistantReply, cacheVars, flagVars, cursorVars,
                 ttsTaskHandle, ttsVolume, statusVars, sdFile, fgpc, call>>

\* The reclaim taking the buffer submitted last (back of the queue) instead
\* of the one submitted first.
RECURSIVE ReclaimNewest(_, _)
ReclaimNewest(t, playingNow) ==
  IF t.recordedInFlight > playingNow /\ t.inFlightOrder # <<>>
  THEN ReclaimNewest(
         [t EXCEPT !.inUse[t.inFlightOrder[Len(t.inFlightOrder)]] = FALSE,
                   !.inFlightOrder = SubSeq(@, 1, Len(@) - 1),
                   !.recordedInFlight = @ - 1], playingNow)
  ELSE t

\* Lines 3166-3171: buffers the speaker has finished with are reclaimed, in
\* the order they were submitted.
RECURSIVE Reclaim(_, _)
Reclaim(t, playingNow) ==
  IF t.recordedInFlight > playingNow /\ t.inFlightOrder # <<>>
  THEN Reclaim([t EXCEPT !.inUse[Head(t.inFlightOrder)] = FALSE,
                         !.inFlightOrder = Tail(@),
                         !.recordedInFlight = @ - 1], playingNow)
  ELSE t

\* Lines 3248-3259 after the loop: close, unmountSD, Speaker.stop,
\* freeBuffers.
LoopExit(w, t, how) ==
  /\ sdMounted' = FALSE
  /\ speaker' = 0
  /\ task' = [UnmountBy(w, task) EXCEPT
                ![w] = Returned(freeBuffers(t), how, how # "cancel")]

\* The wait for the speaker to drain (3174, 3179-3180) left out: a latched
\* pause ends the loop at once.
PlayTopPausesAtOnce(w) ==
  /\ task[w].pc = "pl_top"
  /\ LET latch == ~task[w].pausePending /\ ttsPauseRequested
         t1 == [task[w] EXCEPT !.pausePending = @ \/ latch]
         t2 == Reclaim(t1, speaker)
     IN /\ ttsPauseRequested' = (IF latch THEN FALSE ELSE ttsPauseRequested)
        /\ IF ttsCancelRequested
           THEN LoopExit(w, [t1 EXCEPT !.cancelled = TRUE], "cancel")
           ELSE IF t2.pausePending
           THEN LoopExit(w, t2, "paused")
           ELSE /\ Upd(w, [t2 EXCEPT !.pc = "pl_fill"])
                /\ UNCHANGED <<sdMounted, speaker>>
  /\ UNCHANGED <<lastAssistantReply, cacheVars, ttsBusy, ttsCancelRequested,
                 ttsPaused, ttsPlaybackActive, ttsPrefetchPending, cursorVars,
                 ttsTaskHandle, ttsVolume, statusVars, sdFile, fgpc, call,
                 hist>>

\* Lines 3155-3181: the head of one loop iteration.
PlayTop(w) ==
  /\ task[w].pc = "pl_top"
  /\ LET latch == ~task[w].pausePending /\ ttsPauseRequested
         t1 == [task[w] EXCEPT !.pausePending = @ \/ latch]
         t2 == Reclaim(t1, speaker)
     IN /\ ttsPauseRequested' = (IF latch THEN FALSE ELSE ttsPauseRequested)
        /\ IF ttsCancelRequested
           THEN LoopExit(w, [t1 EXCEPT !.cancelled = TRUE], "cancel")
           ELSE IF t2.pausePending
           THEN IF speaker = 0
                THEN LoopExit(w, t2, "paused")
                ELSE /\ Upd(w, t2)
                     /\ UNCHANGED <<sdMounted, speaker>>
           ELSE /\ Upd(w, [t2 EXCEPT !.pc = "pl_fill"])
                /\ UNCHANGED <<sdMounted, speaker>>
  /\ UNCHANGED <<lastAssistantReply, cacheVars, ttsBusy, ttsCancelRequested,
                 ttsPaused, ttsPlaybackActive, ttsPrefetchPending, cursorVars,
                 ttsTaskHandle, ttsVolume, statusVars, sdFile, fgpc, call,
                 hist>>

\* f.read (3186): the bytes one read returns.
BytesRead(t) ==
  IF t.handle = "read" /\ sdFile.exists /\ sdFile.size > t.pos
  THEN Min(CHUNK_BYTES, sdFile.size - t.pos) ELSE 0

\* The end of the loop (3229-3231) without the tests of recordedInFlight and
\* of the speaker: the loop ends as soon as the file has been read.
PlayFillNoDrain(w) ==
  /\ task[w].pc = "pl_fill"
  /\ LET t == task[w]
         fill == ~t.fileDone /\ t.recordedInFlight < BUFFER_COUNT
                 /\ \E i \in 1..BUFFER_COUNT : ~t.inUse[i]
         n == IF fill THEN BytesRead(t) ELSE 0
         samples == n \div 2
         t1 == [t EXCEPT !.pos = @ + n,
                         !.fileDone = @ \/ (fill /\ samples = 0)]
     IN IF fill /\ samples > 0
        THEN IF ttsCancelRequested
             THEN LoopExit(w, [t1 EXCEPT !.fileDone = TRUE], "cancel_mid")
             ELSE /\ Upd(w, [t1 EXCEPT !.pc = "pl_submit",
                               !.chunk = [k \in 1..(2 * samples) |->
                                            t.pos + k - 1]])
                  /\ UNCHANGED <<sdMounted, speaker>>
        ELSE IF fill /\ ttsCancelRequested
        THEN LoopExit(w, [t1 EXCEPT !.cancelled = TRUE], "cancel")
        ELSE IF t1.fileDone
        THEN LoopExit(w, t1, "done")
        ELSE IF ttsCancelRequested
        THEN LoopExit(w, [t1 EXCEPT !.cancelled = TRUE], "cancel")
        ELSE /\ Upd(w, [t1 EXCEPT !.pc = "pl_top"])
             /\ UNCHANGED <<sdMounted, speaker>>
  /\ UNCHANGED <<lastAssistantReply, cacheVars, flagVars, cursorVars,
                 ttsTaskHandle, ttsVolume, statusVars, sdFile, fgpc, call,
                 hist>>

\* Lines 3183-3245: a chunk is read and handed to PlaySubmit, or the tail of
\* the iteration runs.
PlayFill(w) ==
  /\ task[w].pc = "pl_fill"
  /\ LET t == task[w]
         fill == ~t.fileDone /\ t.recordedInFlight < BUFFER_COUNT
                 /\ \E i \in 1..BUFFER_COUNT : ~t.inUse[i]
         n == IF fill THEN BytesRead(t) ELSE 0
         samples == n \div 2
         t1 == [t EXCEPT !.pos = @ + n,
                         !.fileDone = @ \/ (fill /\ samples = 0)]
     IN IF fill /\ samples > 0
        THEN IF ttsCancelRequested
             THEN LoopExit(w, [t1 EXCEPT !.fileDone = TRUE], "cancel_mid")
             ELSE /\ Upd(w, [t1 EXCEPT !.pc = "pl_submit",
                               !.chunk = [k \in 1..(2 * samples) |->
                                            t.pos + k - 1]])
                  /\ UNCHANGED <<sdMounted, speaker>>
        ELSE IF fill /\ ttsCancelRequested
        THEN LoopExit(w, [t1 EXCEPT !.cancelled = TRUE], "cancel")
        ELSE IF t1.fileDone /\ t1.recordedInFlight = 0 /\ speaker = 0
        THEN LoopExit(w, t1, "done")
        ELSE IF ttsCancelRequested
        THEN LoopExit(w, [t1 EXCEPT !.cancelled = TRUE], "cancel")
        ELSE /\ Upd(w, [t1 EXCEPT !.pc = "pl_top"])
             /\ UNCHANGED <<sdMounted, speaker>>
  /\ UNCHANGED <<lastAssistantReply, cacheVars, flagVars, cursorVars,
                 ttsTaskHandle, ttsVolume, statusVars, sdFile, fgpc, call,
                 hist>>

FreeBuffer(t) == CHOOSE i \in 1..BUFFER_COUNT :
                   ~t.inUse[i] /\ \A j \in 1..BUFFER_COUNT : ~t.inUse[j] => i <= j

\* Lines 3201-3223: playRaw accepts the chunk. It waits for a free slot of
\* the channel unless the chunk is the first, which replaces what plays.
PlaySubmit(w) ==
  /\ task[w].pc = "pl_submit"
  /\ task[w].firstChunk \/ speaker < SPEAKER_QUEUE
  /\ speaker' = (IF task[w].firstChunk THEN 1 ELSE speaker + 1)
  /\ LET i == FreeBuffer(task[w]) IN
       Upd(w, [task[w] EXCEPT !.pc = "pl_top", !.firstChunk = FALSE,
                 !.inUse[i] = TRUE, !.inFlightOrder = Append(@, i),
                 !.recordedInFlight = @ + 1, !.chunk = <<>>])
  /\ hist' = [hist EXCEPT !.played = @ \o task[w].chunk]
  /\ UNCHANGED <<lastAssistantReply, cacheVars, flagVars, cursorVars,
                 ttsTaskHandle, ttsVolume, statusVars, sdVars, fgpc, call>>

\* The rejection without Speaker.stop (3212): what is queued plays on.
PlaySubmitRejectedPlaysOn(w) ==
  /\ task[w].pc = "pl_submit"
  /\ postTtsStatus(w, "Voice queue error")
  /\ sdMounted' = FALSE
  /\ UNCHANGED speaker
  /\ task' = [UnmountBy(w, task) EXCEPT
                ![w] = Returned(freeBuffers(task[w]), "queue", FALSE)]
  /\ UNCHANGED <<lastAssistantReply, cacheVars, flagVars, cursorVars,
                 ttsTaskHandle, ttsVolume, sdFile, fgpc, call, hist>>

\* Lines 3210-3217: playRaw rejects the chunk: Speaker.stop, freeBuffers,
\* close, unmountSD.
PlaySubmitRejected(w) ==
  /\ task[w].pc = "pl_submit"
  /\ postTtsStatus(w, "Voice queue error")
  /\ sdMounted' = FALSE
  /\ speaker' = 0
  /\ task' = [UnmountBy(w, task) EXCEPT
                ![w] = Returned(freeBuffers(task[w]), "queue", FALSE)]
  /\ UNCHANGED <<lastAssistantReply, cacheVars, flagVars, cursorVars,
                 ttsTaskHandle, ttsVolume, sdFile, fgpc, call, hist>>

\* The speaker finishes one queued buffer.
SpeakerPlaysOut ==
  /\ speaker > 0
  /\ speaker' = speaker - 1
  /\ UNCHANGED <<lastAssistantReply, cacheVars, flagVars, cursorVars,
                 ttsTaskHandle, ttsVolume, statusVars, sdVars, fgpc, call,
                 task, hist>>

\* ------------------------------------------------- ttsWorkerTask, the end
\* Lines 3299-3314: the result of playTtsFromSD is recorded.
PostPlay(w) ==
  /\ task[w].pc = "post_play"
  /\ IF task[w].paused
     THEN /\ ttsPaused' = TRUE
          /\ ttsResumeOffset' = task[w].pos
          /\ ttsResumePath' = task[w].audioPath
          /\ ttsPlaybackActive' = FALSE
          /\ postTtsStatus(w, "Voice paused")
     ELSE /\ ttsPaused' = FALSE
          /\ ttsResumeOffset' = 0
          /\ ttsResumePath' = NoPath
          /\ UNCHANGED ttsPlaybackActive
          /\ IF ttsCancelRequested THEN UNCHANGED statusVars
             ELSE postTtsStatus(w, IF task[w].success THEN "Voice done"
                                   ELSE "Voice error")
  /\ Upd(w, [task[w] EXCEPT !.pc = "exit"])
  /\ UNCHANGED <<lastAssistantReply, cacheVars, ttsBusy, ttsCancelRequested,
                 ttsPauseRequested, ttsPrefetchPending, ttsTaskHandle,
                 ttsVolume, sdVars, speaker, fgpc, call, hist>>

\* The cancel branch leaving without the release of ttsBusy.
WorkerExitKeepsBusy(w) ==
  /\ task[w].pc = "exit"
  /\ IF ttsCancelRequested
     THEN /\ postTtsStatus(w, "Voice cancelled")
          /\ ttsPaused' = FALSE
          /\ ttsResumeOffset' = 0
          /\ ttsResumePath' = NoPath
          /\ UNCHANGED ttsBusy
     ELSE /\ ttsBusy' = FALSE
          /\ UNCHANGED <<statusVars, ttsPaused, cursorVars>>
  /\ Upd(w, [task[w] EXCEPT !.pc = "exit_flags"])
  /\ UNCHANGED <<lastAssistantReply, cacheVars, ttsCancelRequested,
                 ttsPauseRequested, ttsPlaybackActive, ttsPrefetchPending,
                 ttsTaskHandle, ttsVolume, sdVars, speaker, fgpc, call, hist>>

\* The cancel branch clearing the Cache Entry as well.
WorkerExitClears(w) ==
  /\ task[w].pc = "exit"
  /\ IF ttsCancelRequested
     THEN /\ postTtsStatus(w, "Voice cancelled")
          /\ ttsPaused' = FALSE
          /\ ttsResumeOffset' = 0
          /\ ttsResumePath' = NoPath
          /\ ttsAudioReady' = FALSE
          /\ ttsCachedText' = NoText
          /\ ttsCachedPath' = NoPath
     ELSE UNCHANGED <<statusVars, ttsPaused, cursorVars, cacheVars>>
  /\ ttsBusy' = FALSE
  /\ Upd(w, [task[w] EXCEPT !.pc = "exit_flags"])
  /\ UNCHANGED <<lastAssistantReply, ttsCancelRequested,
                 ttsPauseRequested, ttsPlaybackActive, ttsPrefetchPending,
                 ttsTaskHandle, ttsVolume, sdVars, speaker, fgpc, call, hist>>

\* Lines 3324-3332: the cancel branch, then ttsBusy is released.
WorkerExit(w) ==
  /\ task[w].pc = "exit"
  /\ IF ttsCancelRequested
     THEN /\ postTtsStatus(w, "Voice cancelled")
          /\ ttsPaused' = FALSE
          /\ ttsResumeOffset' = 0
          /\ ttsResumePath' = NoPath
     ELSE UNCHANGED <<statusVars, ttsPaused, cursorVars>>
  /\ ttsBusy' = FALSE
  /\ Upd(w, [task[w] EXCEPT !.pc = "exit_flags"])
  /\ UNCHANGED <<lastAssistantReply, cacheVars, ttsCancelRequested,
                 ttsPauseRequested, ttsPlaybackActive, ttsPrefetchPending,
                 ttsTaskHandle, ttsVolume, sdVars, speaker, fgpc, call, hist>>

\* Lines 3333-3338: the flags are reset after ttsBusy was released; without a
\* deferred prefetch the task deletes itself (3343).
ExitFlags(w) ==
  /\ task[w].pc = "exit_flags"
  /\ ttsCancelRequested' = FALSE
  /\ ttsPauseRequested' = FALSE
  /\ ttsPlaybackActive' = FALSE
  /\ ttsTaskHandle' = 0
  /\ Upd(w, IF ttsPrefetchPending
            THEN [task[w] EXCEPT !.pc = "exit_pf", !.launchPending = TRUE]
            ELSE DeadTask)
  /\ UNCHANGED <<lastAssistantReply, cacheVars, ttsBusy, ttsPaused,
                 ttsPrefetchPending, cursorVars, ttsVolume, statusVars, sdVars,
                 speaker, fgpc, call, hist>>

\* Lines 3339-3341: the deferred prefetch is started from the exiting task.
ExitPrefetch(w) ==
  /\ task[w].pc = "exit_pf"
  /\ ttsPrefetchPending' = FALSE
  /\ startTtsPrefetch(w, lastAssistantReply)
  /\ Upd(w, [task[w] EXCEPT !.pc = "delete"])
  /\ UNCHANGED <<lastAssistantReply, cacheVars, ttsBusy, ttsCancelRequested,
                 ttsPlaybackActive, cursorVars, ttsTaskHandle, ttsVolume,
                 statusVars, sdVars, speaker, fgpc, hist>>

\* Line 3343, once startTtsPrefetch has returned.
TaskDelete(w) ==
  /\ task[w].pc = "delete"
  /\ call[w].pc = "none"
  /\ Upd(w, DeadTask)
  /\ UNCHANGED <<lastAssistantReply, cacheVars, flagVars, cursorVars,
                 ttsTaskHandle, ttsVolume, statusVars, sdVars, speaker, fgpc,
                 call, hist>>

\* ======================================================= the body readers
\* A response body as the client sees it: the bytes (data), the sizes of the
\* bursts they arrive in, and whether the peer closes the connection after
\* the last byte (close) or leaves it open and silent, so that the reader
\* runs into TTS_DOWNLOAD_TIMEOUT_MS.
Connected(s, bursts) == bursts # <<>> \/ ~s.close

\* The read size with the clamp to contentLength left out.
FixedToReadWhole(lengthKnown, contentLength) == BUF_SIZE

\* Lines 2751-2753.
FixedToRead(lengthKnown, contentLength) ==
  IF lengthKnown THEN Min(contentLength, BUF_SIZE) ELSE BUF_SIZE

\* readFixedBodyToFile (2734-2768). st: the bursts still to arrive, the bytes
\* read (pos), the bytes available, contentLength, the bytes written.
RECURSIVE FixedLoop(_, _, _)
FixedLoop(s, lengthKnown, st) ==
  LET result(ok) == [ok |-> ok, written |-> st.written, used |-> st.pos] IN
  IF ~(Connected(s, st.bursts) \/ st.avail > 0)
  THEN result(~lengthKnown \/ st.contentLength <= 0)
  ELSE IF lengthKnown /\ st.contentLength <= 0 THEN result(TRUE)
  ELSE IF st.avail = 0
  THEN IF st.bursts = <<>> THEN result(FALSE)
       ELSE FixedLoop(s, lengthKnown,
                      [st EXCEPT !.avail = Head(st.bursts), !.bursts = Tail(@)])
  ELSE LET toRead  == FixedToRead(lengthKnown, st.contentLength)
           readLen == Min(toRead, st.avail)
       IN FixedLoop(s, lengthKnown,
            [st EXCEPT !.pos = @ + readLen, !.avail = @ - readLen,
                       !.contentLength = IF lengthKnown THEN @ - readLen ELSE @,
                       !.written = @ \o SubSeq(s.data, st.pos + 1,
                                               st.pos + readLen)])

readFixedBodyToFile(s, contentLength) ==
  FixedLoop(s, contentLength >= 0,
            [bursts |-> s.bursts, pos |-> 0, avail |-> 0,
             contentLength |-> contentLength, written |-> <<>>])

\* The reader applied to the body of hist.io.
Finished(r) == [hist.io EXCEPT !.done = TRUE, !.ok = r.ok,
                               !.written = r.written, !.used = r.used]

FixedBody ==
  /\ hist.io.kind = "fixed"
  /\ ~hist.io.done
  /\ hist' = [hist EXCEPT
                !.io = Finished(readFixedBodyToFile(hist.io, hist.io.len))]
  /\ UNCHANGED <<lastAssistantReply, cacheVars, flagVars, cursorVars,
                 ttsTaskHandle, ttsVolume, statusVars, sdVars, speaker, fgpc,
                 call, task>>

\* The client: the bursts still to arrive, the bytes read (pos), the bytes
\* available now.
NewClient(s) == [bursts |-> s.bursts, pos |-> 0, avail |-> 0]

Arrive(st) == [st EXCEPT !.avail = Head(st.bursts), !.bursts = Tail(@)]

\* readLineFromClient (2708-2732): carriage returns are dropped, a line feed
\* ends the line; at the timeout or the end of the connection the result
\* tells whether the line is empty.
RECURSIVE readLineFromClient(_, _, _)
readLineFromClient(s, st, line) ==
  IF st.avail > 0
  THEN LET c   == s.data[st.pos + 1]
           st1 == [st EXCEPT !.pos = @ + 1, !.avail = @ - 1]
       IN IF c = "\r" THEN readLineFromClient(s, st1, line)
          ELSE IF c = "\n" THEN [ret |-> TRUE, line |-> line, st |-> st1]
          ELSE readLineFromClient(s, st1, Append(line, c))
  ELSE IF st.bursts # <<>> THEN readLineFromClient(s, Arrive(st), line)
  ELSE [ret |-> line # <<>>, line |-> line, st |-> st]

\* String::trim.
IsBlank(c) == c \in {" ", "\t", "\r", "\n"}

RECURSIVE Trim(_)
Trim(l) ==
  IF l = <<>> THEN l
  ELSE IF IsBlank(Head(l)) THEN Trim(Tail(l))
  ELSE IF IsBlank(l[Len(l)]) THEN Trim(SubSeq(l, 1, Len(l) - 1))
  ELSE l

\* strtol: an optional sign, then the digits of the base at the head of the
\* text; 0 without any digit.
DigitValue(c) ==
  CASE c = "0" -> 0 [] c = "1" -> 1 [] c = "2" -> 2 [] c = "3" -> 3
    [] c = "4" -> 4 [] c = "5" -> 5 [] c = "6" -> 6 [] c = "7" -> 7
    [] c = "8" -> 8 [] c = "9" -> 9 [] c = "a" -> 10 [] c = "b" -> 11
    [] c = "c" -> 12 [] c = "d" -> 13 [] c = "e" -> 14 [] c = "f" -> 15
    [] OTHER -> 99

RECURSIVE strtolFrom(_, _, _)
strtolFrom(text, base, acc) ==
  IF text = <<>> \/ DigitValue(Head(text)) >= base THEN acc
  ELSE strtolFrom(Tail(text), base, acc * base + DigitValue(Head(text)))

strtol(text, base) ==
  IF text # <<>> /\ Head(text) = "-" THEN 0 - strtolFrom(Tail(text), base, 0)
  ELSE IF text # <<>> /\ Head(text) = "+" THEN strtolFrom(Tail(text), base, 0)
  ELSE strtolFrom(text, base, 0)

\* The chunk size read as a decimal number.
ChunkSizeDecimal(sizeLine) == strtol(sizeLine, 10)

\* Line 2784.
ChunkSize(sizeLine) == strtol(sizeLine, 16)

\* Lines 2792-2810: the payload of one chunk is copied to the file.
RECURSIVE ChunkPayload(_, _, _, _)
ChunkPayload(s, st, remaining, written) ==
  IF remaining <= 0 THEN [ok |-> TRUE, st |-> st, written |-> written]
  ELSE IF st.avail = 0
  THEN IF st.bursts = <<>> THEN [ok |-> FALSE, st |-> st, written |-> written]
       ELSE ChunkPayload(s, Arrive(st), remaining, written)
  ELSE LET toRead == Min(remaining, BUF_SIZE)
           len    == Min(toRead, st.avail)
       IN ChunkPayload(s, [st EXCEPT !.pos = @ + len, !.avail = @ - len],
                       remaining - len,
                       written \o SubSeq(s.data, st.pos + 1, st.pos + len))

\* Lines 2812-2825: n bytes are read and thrown away.
RECURSIVE Discard(_, _)
Discard(st, n) ==
  IF n = 0 THEN [ok |-> TRUE, st |-> st]
  ELSE IF st.avail = 0
  THEN IF st.bursts = <<>> THEN [ok |-> FALSE, st |-> st]
       ELSE Discard(Arrive(st), n)
  ELSE Discard([st EXCEPT !.pos = @ + 1, !.avail = @ - 1], n - 1)

\* readChunkedBodyToFile (2770-2831).
RECURSIVE ChunkedLoop(_, _, _)
ChunkedLoop(s, st, written) ==
  LET l == readLineFromClient(s, st, <<>>) IN
  IF ~l.ret THEN [ok |-> FALSE, written |-> written, used |-> l.st.pos]
  ELSE LET sizeLine == Trim(l.line) IN
       IF sizeLine = <<>> THEN ChunkedLoop(s, l.st, written)
       ELSE LET chunkSize == ChunkSize(sizeLine) IN
            IF chunkSize <= 0
            THEN LET trailer == readLineFromClient(s, l.st, <<>>) IN
                 [ok |-> TRUE, written |-> written, used |-> trailer.st.pos]
            ELSE LET p == ChunkPayload(s, l.st, chunkSize, written)
                     d == Discard(p.st, 2)
                 IN IF ~p.ok
                    THEN [ok |-> FALSE, written |-> p.written,
                          used |-> p.st.pos]
                    ELSE IF ~d.ok
                    THEN [ok |-> FALSE, written |-> p.written,
                          used |-> d.st.pos]
                    ELSE ChunkedLoop(s, d.st, p.written)

readChunkedBodyToFile(s) == ChunkedLoop(s, NewClient(s), <<>>)

ChunkedBody ==
  /\ hist.io.kind = "chunked"
  /\ ~hist.io.done
  /\ hist' = [hist EXCEPT !.io = Finished(readChunkedBodyToFile(hist.io))]
  /\ UNCHANGED <<lastAssistantReply, cacheVars, flagVars, cursorVars,
                 ttsTaskHandle, ttsVolume, statusVars, sdVars, speaker, fgpc,
                 call, task>>

\* The same reader on a body whose framing is broken.
MalformedBody ==
  /\ hist.io.kind = "malformed"
  /\ ~hist.io.done
  /\ hist' = [hist EXCEPT !.io = Finished(readChunkedBodyToFile(hist.io))]
  /\ UNCHANGED <<lastAssistantReply, cacheVars, flagVars, cursorVars,
                 ttsTaskHandle, ttsVolume, statusVars, sdVars, speaker, fgpc,
                 call, task>>

\* ============================================================ specification
\* Response bodies: none, one that ends in half a sample, whole chunks.
Bodies == {0, MaxBody - 1, MaxBody}

Conversation ==
  \/ clearTtsCache
  \/ PromptAgain
  \/ \E r \in Replies : NewReply(r)
  \/ ReplyPrefetch

Keys ==
  \/ KeySpeak
  \/ KeyCancel
  \/ CancelWrite
  \/ KeyPause
  \/ PauseWrite
  \/ KeyEnter
  \/ EnterWrite

Launch(c) ==
  \/ TaskCheck(c)
  \/ TaskCreate(c)

Download(w) ==
  \/ DlOpen(w)
  \/ DlConnect(w)
  \/ DlRead(w)
  \/ DlDone(w)

DownloadFaults(w) ==
  \/ DlStorageFails(w)
  \/ DlConnectFails(w)
  \/ DlHeaderTimeout(w)
  \/ DlHttpError(w)
  \/ DlReadFails(w)

Play(w) ==
  \/ PlayOpenReturns(w)
  \/ PlayOpen(w)
  \/ PlayTop(w)
  \/ PlayFill(w)
  \/ PlaySubmit(w)

PlayFaults(w) ==
  \/ PlayStorageFails(w)
  \/ PlayAllocFails(w)
  \/ PlaySubmitRejected(w)

Fetch(w) ==
  \/ WorkerStart(w)
  \/ Download(w)
  \/ DlCheck(w)
  \/ Commit(w)
  \/ Decide(w)
  \/ WorkerExit(w)
  \/ ExitFlags(w)

Job(w) ==
  \/ Fetch(w)
  \/ Play(w)
  \/ PostPlay(w)

Chain(w) ==
  \/ ExitPrefetch(w)
  \/ TaskDelete(w)

Faults ==
  \/ \E c \in Callers : TaskCreateFails(c)
  \/ \E w \in Tasks : DownloadFaults(w) \/ PlayFaults(w)

\* Everything the firmware and its environment can do.
Next ==
  \/ Conversation
  \/ ReplyCancel
  \/ Keys
  \/ pumpTtsStatus
  \/ \E c \in Callers : PrefetchMark(c) \/ Launch(c)
  \/ \E w \in Tasks : Job(w) \/ Chain(w)
  \/ \E w \in Tasks, n \in Bodies : DlHeaders(w, n)
  \/ SpeakerPlaysOut
  \/ Faults

Spec == Init /\ [][Next]_vars

\* One reply and its view: every key, every fault, the status texts.
SessionNext ==
  \/ Conversation
  \/ Keys
  \/ pumpTtsStatus
  \/ Launch(FG)
  \/ \E w \in Tasks : Job(w)
  \/ \E w \in Tasks, n \in Bodies : DlHeaders(w, n)
  \/ SpeakerPlaysOut
  \/ Faults

SessionInit == InitWith([NoHist EXCEPT !.replies = 1, !.tasks = 1])

SessionSpec == SessionInit /\ [][SessionNext]_vars

\* The session with the scheduler's guarantees: a task that is ready to run
\* gets the processor (FreeRTOS time slicing between tasks of one priority),
\* the server's headers arrive unless the wait times out, and the speaker
\* plays out what it holds.
FairSessionSpec ==
  /\ SessionSpec
  /\ \A w \in Tasks : WF_vars(Job(w))
  /\ \A w \in Tasks : WF_vars(\E n \in Bodies : DlHeaders(w, n))
  /\ WF_vars(SpeakerPlaysOut)

\* One clip long enough to fill every chunk buffer, played, paused, resumed
\* and cancelled; no fault, the status texts are not recorded.
ClipBytes == CHUNK_BYTES * BUFFER_COUNT

PlayerNext ==
  \/ Conversation
  \/ KeySpeak
  \/ KeyCancel
  \/ CancelWrite
  \/ KeyPause
  \/ PauseWrite
  \/ Launch(FG)
  \/ \E w \in Tasks : Job(w)
  \/ \E w \in Tasks : DlHeaders(w, ClipBytes)
  \/ SpeakerPlaysOut

PlayerInit ==
  InitWith([NoHist EXCEPT !.status = FALSE, !.replies = 1, !.tasks = 1])

PlayerSpec == PlayerInit /\ [][PlayerNext]_vars

\* The same reply twice in a row with the keys that speak and leave the
\* view: tasks that overlap, no fault, one body; the status texts are not
\* recorded.
Repeated == <<"b">>

RaceNext ==
  \/ clearTtsCache
  \/ NewReply(Repeated)
  \/ ReplyCancel
  \/ ReplyPrefetch
  \/ KeySpeak
  \/ KeyEnter
  \/ EnterWrite
  \/ \E c \in Callers : PrefetchMark(c) \/ Launch(c)
  \/ \E w \in Tasks : Job(w) \/ Chain(w)
  \/ \E w \in Tasks : DlHeaders(w, BUF_SIZE)
  \/ SpeakerPlaysOut

RaceInit == InitWith([NoHist EXCEPT !.status = FALSE])

RaceSpec == RaceInit /\ [][RaceNext]_vars

\* The session with the foreground ticking as well: it leaves no call half
\* done, it goes on from the end of the view to the prompt, and every pass
\* of its loops calls pumpTtsStatus before it looks at the keys.
Ticking ==
  \/ Launch(FG)
  \/ CancelWrite
  \/ PauseWrite
  \/ EnterWrite
  \/ clearTtsCache
  \/ ReplyPrefetch

FairStatusSpec ==
  /\ FairSessionSpec
  /\ WF_vars(Ticking)
  /\ SF_vars(pumpTtsStatus)

\* Replies that arrive while the audio of the one before is still fetched:
\* prefetch requests, the deferred ones among them, and nothing played. A
\* wait of the downloader that gets no data ends by its timeout.
DeferNext ==
  \/ clearTtsCache
  \/ \E r \in Replies : NewReply(r)
  \/ ReplyCancel
  \/ ReplyPrefetch
  \/ KeyEnter
  \/ EnterWrite
  \/ \E c \in Callers : PrefetchMark(c) \/ Launch(c)
  \/ \E w \in Tasks : Fetch(w) \/ Chain(w)
  \/ \E w \in Tasks : DlHeaders(w, BUF_SIZE)
  \/ \E w \in Tasks : DlHttpError(w) \/ DlReadFails(w)

DeferInit == InitWith([NoHist EXCEPT !.status = FALSE, !.tasks = 2])

DeferSpec == DeferInit /\ [][DeferNext]_vars

\* The same with the status texts recorded and the foreground's pump.
RelayNext == DeferNext \/ pumpTtsStatus

RelayInit == InitWith([NoHist EXCEPT !.tasks = 2])

RelaySpec == RelayInit /\ [][RelayNext]_vars

\* The scheduler's guarantees: every task, the foreground in the middle of
\* a call included, gets the processor.
FairDeferSpec ==
  /\ DeferSpec
  /\ \A w \in Tasks :
       WF_vars(Fetch(w) \/ Chain(w) \/ DlHeaders(w, BUF_SIZE)
                 \/ DlHttpError(w) \/ DlReadFails(w))
  /\ \A c \in Callers : WF_vars(PrefetchMark(c) \/ Launch(c))
  /\ WF_vars(ReplyCancel)

\* The body readers alone, on every body of the bounds.
Whole(n)   == IF n = 0 THEN <<>> ELSE <<n>>
Singles(n) == [i \in 1..n |-> 1]

\* Bodies without chunking: D bytes delivered, then the connection closes or
\* stalls; Content-Length absent (-1) or 0 .. MaxBody + 1.
FixedInputs ==
  { [NoIo EXCEPT !.kind = "fixed", !.data = Ramp(d), !.bursts = b,
                 !.close = c, !.len = l] :
      <<d, b>> \in UNION { {<<n, Whole(n)>>, <<n, Singles(n)>>} :
                             n \in 0..(MaxBody + 1) },
      c \in BOOLEAN, l \in -1..(MaxBody + 1) }

CRLF == <<"\r", "\n">>

\* Chunks: payloads with a line feed or a digit in them, a size with a
\* leading zero, a size of two hex digits' worth, a chunk extension.
Chunks ==
  { [size |-> <<"1">>, payload |-> <<"z">>],
    [size |-> <<"1">>, payload |-> <<"\n">>],
    [size |-> <<"2">>, payload |-> <<"1", "\r">>],
    [size |-> <<"0", "2">>, payload |-> <<"z", "\n">>],
    [size |-> <<"a">>, payload |-> [i \in 1..10 |-> "z"]],
    [size |-> <<"2", ";", "e">>, payload |-> <<"0", "z">>] }

\* The last chunk, without and with a trailer field.
LastChunks == { <<"0">> \o CRLF \o CRLF,
                <<"0">> \o CRLF \o <<"t">> \o CRLF \o CRLF }

\* What may follow the body on the connection.
Tails == { <<>>, <<"z">>, <<"1">> \o CRLF }

RECURSIVE Encoded(_)
Encoded(chunks) ==
  IF chunks = <<>> THEN <<>>
  ELSE Head(chunks).size \o CRLF \o Head(chunks).payload \o CRLF
         \o Encoded(Tail(chunks))

RECURSIVE Payloads(_)
Payloads(chunks) ==
  IF chunks = <<>> THEN <<>>
  ELSE Head(chunks).payload \o Payloads(Tail(chunks))

ChunkedInputs ==
  { [NoIo EXCEPT !.kind = "chunked", !.chunks = cs, !.tail = <<last, t>>,
                 !.data = Encoded(cs) \o last \o t,
                 !.bursts = IF one THEN Whole(Len(Encoded(cs) \o last \o t))
                            ELSE Singles(Len(Encoded(cs) \o last \o t)),
                 !.close = c] :
      cs \in UNION { [1..n -> Chunks] : n \in 0..MaxChunks },
      last \in LastChunks, t \in Tails, one \in BOOLEAN, c \in BOOLEAN }

\* Broken framing where a chunk-size line is due: a line that is no
\* hexadecimal number, a negative size (each followed by what the sender
\* meant as payload and by the last chunk), or nothing more, with the
\* connection closed.
NotHex   == <<"x">> \o CRLF \o <<"z">> \o CRLF \o <<"0">> \o CRLF \o CRLF
Negative == <<"-", "1">> \o CRLF \o <<"z">> \o CRLF \o <<"0">> \o CRLF \o CRLF
CutShort == <<>>

MalformedInputs ==
  { [NoIo EXCEPT !.kind = "malformed", !.chunks = cs, !.tail = <<bad, <<>>>>,
                 !.data = Encoded(cs) \o bad,
                 !.bursts = IF one THEN Whole(Len(Encoded(cs) \o bad))
                            ELSE Singles(Len(Encoded(cs) \o bad)),
                 !.close = TRUE] :
      cs \in UNION { [1..n -> Chunks] : n \in 0..MaxChunks },
      bad \in {NotHex, Negative, CutShort}, one \in BOOLEAN }

BodyInit == \E i \in FixedInputs \cup ChunkedInputs \cup MalformedInputs :
              InitWith([NoHist EXCEPT !.io = i])

BodyNext == FixedBody \/ ChunkedBody \/ MalformedBody

BodySpec == BodyInit /\ [][BodyNext]_vars

\* ------------------------------------------------------ the busy indicator
\* ledBusyDepth is a plain int (2101) that the loop task (callOpenAI 4406 and
\* 4527, the recording 5009 and 5090, the Wi-Fi calls 3965-3991 and
\* 4212-4217) and the Worker (3267, 3331) both change, with no lock: each
\* ++ and -- is a load and a store, and the other task can run in between.
LedStep(l) ==
  /\ hist' = [hist EXCEPT !.led = l]
  /\ UNCHANGED <<lastAssistantReply, cacheVars, flagVars, cursorVars,
                 ttsTaskHandle, ttsVolume, statusVars, sdVars, speaker, fgpc,
                 call, task>>

\* ledEnterBusy (3749-3751): the return without an LED, or the load of
\* ledBusyDepth.
ledEnterBusyLoad(u) ==
  LET l == hist.led IN
  /\ l.pc[u] = "idle"
  /\ l.ops[u] > 0
  /\ LedStep(IF l.ledAvailable
             THEN [l EXCEPT !.pc[u] = "enter_st", !.reg[u] = l.ledBusyDepth,
                            !.ops[u] = @ - 1]
             ELSE [l EXCEPT !.pc[u] = "busy", !.ops[u] = @ - 1])

\* Line 3751: the store of the incremented value.
ledEnterBusyStore(u) ==
  LET l == hist.led IN
  /\ l.pc[u] = "enter_st"
  /\ LedStep([l EXCEPT !.pc[u] = "busy", !.ledBusyDepth = l.reg[u] + 1])

\* ledExitBusy (3757-3759): the return without an LED, or the load of
\* ledBusyDepth for the test and the decrement.
ledExitBusyLoad(u) ==
  LET l == hist.led IN
  /\ l.pc[u] = "busy"
  /\ LedStep(IF l.ledAvailable
             THEN [l EXCEPT !.pc[u] = "exit_st", !.reg[u] = l.ledBusyDepth]
             ELSE [l EXCEPT !.pc[u] = "idle"])

\* Line 3760: the store of the decremented value, when the value loaded was
\* above 0.
ledExitBusyStore(u) ==
  LET l == hist.led IN
  /\ l.pc[u] = "exit_st"
  /\ LedStep([l EXCEPT !.pc[u] = "idle", !.reg[u] = 0,
                       !.ledBusyDepth = IF l.reg[u] > 0 THEN l.reg[u] - 1
                                        ELSE @])

LedNext ==
  \E u \in LedUsers :
    \/ ledEnterBusyLoad(u)
    \/ ledEnterBusyStore(u)
    \/ ledExitBusyLoad(u)
    \/ ledExitBusyStore(u)

\* initializeLed (3737-3747): the board has an LED pin or it has none.
LedInit == \E a \in BOOLEAN :
             InitWith([NoHist EXCEPT !.led = [NoLed EXCEPT !.ledAvailable = a]])

LedSpec == LedInit /\ [][LedNext]_vars

\* The volume keys ('-', '=': 4836-4841) alone, with any signed delta.
VolumeDeltas == {-300, -TTS_VOLUME_STEP, -1, 1, TTS_VOLUME_STEP, 300}

VolumeNext == \E d \in VolumeDeltas : adjustTtsVolume(d)

VolumeSpec == Init /\ [][VolumeNext]_vars

\* ================================================================ properties
\* C10: the volume stays within 0..255 and saturates: the value after a key
\* is the sum of the value before and the delta when that sum lies in
\* 0..255, 255 when the sum is above, 0 when it is below. It never wraps.
C10_VolumeSaturates ==
  LET sum == hist.volPrev + hist.volDelta IN
  /\ ttsVolume \in 0..255
  /\ sum > 255 => ttsVolume = 255
  /\ sum < 0 => ttsVolume = 0
  /\ sum \in 0..255 => ttsVolume = sum

\* A key press that would have taken the volume above 255 left it at 255.
C10_Witness ==
  /\ hist.volDelta > 0
  /\ hist.volPrev < 255
  /\ hist.volPrev + hist.volDelta > 255
  /\ ttsVolume = 255

\* C1: at any moment at most one job is in Downloading or Playing, whatever
\* the interleaving of the foreground with the exit sequence of a task that
\* launches the deferred prefetch.
C1_AtMostOneWorker ==
  Cardinality({w \in Tasks : task[w].pc \in DownloadPcs \cup PlayPcs}) <= 1

\* C2: speak() called while a job is busy starts no task and changes no flag,
\* no part of the Cache Entry or the Playback Cursor, no file and no task:
\* its only effect is the status "Voice busy".
C2_SpeakWhileBusy ==
  [][(KeySpeak /\ ttsBusy) =>
       /\ statusBaseLine' = "Voice busy"
       /\ UNCHANGED <<lastAssistantReply, cacheVars, flagVars, cursorVars,
                      ttsTaskHandle, ttsVolume, ttsPendingStatus,
                      ttsStatusDirty, sdVars, speaker, fgpc, call, task,
                      hist>>]_vars

\* The key was pressed while a task was running.
C2_Witness ==
  /\ statusBaseLine = "Voice busy"
  /\ ttsBusy
  /\ \E w \in Tasks : task[w].pc \in DownloadPcs \cup PlayPcs

\* C3: prefetch called twice for one text, the second time before the first
\* job has completed, makes one download of that text: the job launched for
\* the deferred request does not download a text whose complete audio an
\* earlier job has put on the card.
C3_OneDownload == \A w \in Tasks : task[w].chained => ~task[w].again

\* C4: once a prefetch has made the Cache Entry ready for a text, speaking
\* that text plays the cached file and downloads nothing: a job launched
\* while the Cache Entry was ready for its text is a useCache job, and a
\* useCache job is never in Downloading.
C4_CachedSpeak ==
  \A w \in Tasks :
    LET t == task[w]
        wasReady == t.snapPre[1] /\ t.snapPre[2] = t.ctx.sanitizedText
                    /\ t.snapPre[3] # NoPath
        downloading == t.pc \in DownloadPcs \cup {"dl_check", "commit"}
    IN /\ (t.pc # "dead" /\ wasReady) => t.ctx.useCache
       /\ t.ctx.useCache => ~downloading

\* A job launched by speak plays audio that an earlier job cached for the
\* sanitized reply.
C4_Witness ==
  \E w \in Tasks :
    /\ task[w].ctx.useCache /\ task[w].ctx.playAfterDownload
    /\ task[w].snapPre = <<TRUE, sanitizeForTts(lastAssistantReply),
                           TTS_CACHE_PATH>>
    /\ lastAssistantReply # task[w].ctx.sanitizedText
    /\ task[w].pc \in PlayPcs
    /\ hist.played # <<>>

Resumed(t) == t.ctx.playAfterDownload /\ t.ctx.startOffset > 0

\* The bytes below n that make whole 16-bit samples (3189-3192).
Samples(n) == 2 * (n \div 2)

BackToIdle(w) == task[w].pc = "exit_flags"

CacheEntry == <<ttsAudioReady, ttsCachedText, ttsCachedPath>>

\* C6: a job that was sent a cancel request while it was in Downloading
\* leaves, once it is back to Idle, no file at the cache path and the Cache
\* Entry not ready.
C6_CancelledDownload ==
  \A w \in Tasks :
    (task[w].cancelDl /\ BackToIdle(w)) => ~sdFile.exists /\ ~ttsAudioReady

C8_CancelTerminates == (ttsBusy /\ ttsCancelRequested) ~> ~ttsBusy

\* A job that was sent a cancel request while downloading or playing has
\* ended and ttsBusy is released.
C8_Witness ==
  \E w \in Tasks :
    /\ task[w].cancelDl \/ task[w].cancelPlay
    /\ BackToIdle(w)
    /\ ~ttsBusy

\* C9: when the Cache Entry is ready, the file at the cache path exists and
\* holds the complete audio downloaded for the fingerprint text.
C9_ReadyMeansFile ==
  ttsAudioReady =>
    /\ ttsCachedPath = TTS_CACHE_PATH
    /\ FileComplete(sdFile)
    /\ sdFile.text = ttsCachedText

C12_HttpFailure ==
  \A w \in Tasks :
    LET t == task[w] IN
    (/\ BackToIdle(w) /\ ~t.touched
     /\ t.ctx.playAfterDownload /\ ~t.ctx.useCache
     /\ t.end = "http" /\ ~t.cancelAny)
      => /\ ~ttsBusy
         /\ ~sdFile.exists
         /\ ~ttsAudioReady
         /\ hist.played = <<>>
         /\ hist.status => ttsPendingStatus = "Voice HTTP error"

\* C13: with a declared length L >= 0 and D bytes delivered, the reader
\* reports success exactly when D >= L and writes the first min(D, L) bytes,
\* never more than L; with no declared length and the connection closed
\* after the D bytes it reports success and has written all of them.
C13_FixedBody ==
  LET io == hist.io
      D  == Len(io.data)
  IN (io.kind = "fixed" /\ io.done) =>
       /\ io.len >= 0 => /\ io.ok <=> D >= io.len
                         /\ Len(io.written) <= io.len
                         /\ io.written = SubSeq(io.data, 1, Min(D, io.len))
       /\ (io.len < 0 /\ io.close) => io.ok /\ io.written = io.data

\* Content-Length MaxBody with one byte missing: failure, not partial success.
C13_Witness ==
  /\ hist.io.kind = "fixed" /\ hist.io.done
  /\ hist.io.len = MaxBody
  /\ Len(hist.io.data) = MaxBody - 1
  /\ hist.io.close
  /\ ~hist.io.ok
  /\ Len(hist.io.written) = MaxBody - 1

\* C14: for a well-formed chunked body the reader writes exactly the
\* payloads of the chunks in order, reports success, and reads nothing
\* beyond the trailer of the last chunk.
C14_ChunkedBody ==
  LET io == hist.io IN
  (io.kind = "chunked" /\ io.done) =>
    /\ io.ok
    /\ io.written = Payloads(io.chunks)
    /\ io.used <= Len(io.data) - Len(io.tail[2])

\* Two chunks, more bytes behind the body: the payloads are on the file and
\* the bytes behind the body are unread.
C14_Witness ==
  /\ hist.io.kind = "chunked" /\ hist.io.done
  /\ Len(hist.io.chunks) = 2
  /\ hist.io.tail[2] # <<>>
  /\ hist.io.ok
  /\ hist.io.written = Payloads(hist.io.chunks)
  /\ hist.io.used = Len(hist.io.data) - Len(hist.io.tail[2])

\* C15: a prefetch request deferred because a job was running is taken up:
\* ttsPrefetchPending does not stay set for ever (it is reset by the launch
\* of the deferred prefetch, or by a later cancel that drops the request).
C15_DeferredPrefetchLaunched == ttsPrefetchPending ~> ~ttsPrefetchPending

\* The statuses a job can end with.
FinalStatuses == {"Voice ready", "Voice done", "Voice paused", "Voice error",
                  "Voice cancelled"}

\* C16: the last status a completed job left in the relay is displayed by
\* the foreground at some later moment.
C16_FinalStatusShown ==
  \A m \in FinalStatuses :
    (ttsStatusDirty /\ ~ttsBusy /\ ttsPendingStatus = m) ~> (statusBaseLine = m)

\* C17: clearTtsCache has no effect while a job is running: with ttsBusy true
\* it changes neither the Cache Entry nor the cache file.
C17_ClearRefusedWhileBusy ==
  [][(clearTtsCache /\ ttsBusy) => UNCHANGED <<cacheVars, sdFile>>]_vars

\* A step of a worker task within its job.
WorkerStep == \E w \in Tasks : Job(w) \/ DownloadFaults(w) \/ PlayFaults(w)

\* C18: the Cache Entry and the Playback Cursor change only in steps of the
\* Worker taken while ttsBusy is true, or in clearTtsCache.
C18_SingleWriter ==
  [][(<<cacheVars, ttsPaused, cursorVars>>' # <<cacheVars, ttsPaused, cursorVars>>)
       => (clearTtsCache \/ (ttsBusy /\ WorkerStep))]_vars

\* C19: a job against which a cancel request was made while it was running
\* ends as cancelled: its task finds ttsCancelRequested set when it reaches
\* the end of ttsWorkerTask.
C19_CancelObserved ==
  [][\A w \in Tasks :
       (task[w].pc = "exit" /\ task'[w].pc = "exit_flags" /\ task[w].cancelAny)
         => ttsCancelRequested]_vars

\* C20: a Cache Entry that is ready carries the fingerprint of the latest
\* reply, never that of an earlier one.
C20_NoStaleCommit ==
  ttsAudioReady => ttsCachedText = sanitizeForTts(lastAssistantReply)

\* The Cache Entry holds the audio of the latest reply.
CacheMatchesReply ==
  /\ lastAssistantReply # NoText
  /\ ttsAudioReady /\ ttsCachedPath # NoPath
  /\ ttsCachedText = sanitizeForTts(lastAssistantReply)

\* C21: speak() asks for a job at the stored resume offset exactly when
\* ttsPaused is true, the offset is not zero and the resume path is the path
\* of a Cache Entry that matches the reply, and at offset 0 otherwise; the
\* task that is created starts at the offset asked for.
C21_SpeakStartOffset ==
  [][/\ (call[FG].pc = "none" /\ call'[FG].pc = "task_chk" /\ call'[FG].play)
        => call'[FG].off =
             (IF ttsPaused /\ ttsResumeOffset # 0
                 /\ ttsResumePath = ttsCachedPath /\ CacheMatchesReply
              THEN ttsResumeOffset ELSE 0)
     /\ \A w \in Tasks :
          (call[FG].pc = "task_set" /\ call[FG].play
           /\ task[w].pc = "dead" /\ task'[w].pc = "start")
            => task'[w].ctx.startOffset = call[FG].off]_vars

\* A job launched by speak() at the offset of a pause in the middle of the
\* clip.
C21_Witness ==
  \E w \in Tasks :
    /\ task[w].pc = "start"
    /\ task[w].ctx.playAfterDownload
    /\ task[w].ctx.startOffset = CHUNK_BYTES
    /\ ttsResumeOffset = CHUNK_BYTES

\* A pause request stands during playback.
PauseAccepted == ttsPauseRequested /\ ttsBusy /\ ttsPlaybackActive

\* The Worker has left a paused clip: the cursor is the offset the player
\* returned.
ExitedPaused(w) ==
  /\ BackToIdle(w)
  /\ ~ttsBusy /\ ~ttsPlaybackActive /\ ttsPaused
  /\ ttsResumeOffset = task[w].pos
  /\ ttsResumePath = task[w].audioPath

\* C22: a pause request accepted during playback is followed, unless a
\* cancel is requested, by the exit of the Worker with ttsBusy and
\* ttsPlaybackActive false, ttsPaused true and the cursor at the offset the
\* player reported.
\* Neither a storage or queue error nor a write of the foreground to the
\* Cache Entry is held against the pause.
C22_PauseCompletes ==
  PauseAccepted ~>
    \/ ttsCancelRequested
    \/ \E w \in Tasks : \/ ExitedPaused(w)
                        \/ task[w].end \in {"error", "queue"}
                        \/ task[w].touched

\* A call of resumeTtsIfPaused from the reply view: what the function leaves
\* alone.
ResumeCall ==
  /\ InView
  /\ resumeTtsIfPaused
  /\ UNCHANGED <<lastAssistantReply, cacheVars, ttsBusy, ttsCancelRequested,
                 ttsPauseRequested, ttsPlaybackActive, ttsPrefetchPending,
                 ttsTaskHandle, ttsVolume, sdVars, speaker, fgpc, task, hist>>

\* C23: resume() changes nothing and asks for no job when ttsPaused is
\* false; when ttsPaused is true, ttsBusy is false and the cache is ready it
\* asks for one job that plays the cached file from the stored offset, and
\* the task created for such a job never downloads.
C23_Resume ==
  [][/\ (~ttsPaused /\ ResumeCall) => UNCHANGED vars
     /\ (ttsPaused /\ ~ttsBusy /\ ttsAudioReady /\ ttsCachedPath # NoPath
         /\ ResumeCall)
        => /\ call'[FG].pc = "task_chk"
           /\ call'[FG].play /\ call'[FG].useCache
           /\ call'[FG].path = ttsCachedPath
           /\ call'[FG].off = ttsResumeOffset
           /\ UNCHANGED <<ttsPaused, cursorVars, task>>
     /\ \A w \in Tasks :
          (task[w].ctx.useCache /\ task[w].ctx.playAfterDownload)
            => task'[w].pc \notin DownloadPcs]_vars

\* The job of a resume: it plays the cached file from the offset of the
\* pause.
C23_Witness ==
  \E w \in Tasks :
    /\ task[w].pc = "pl_top"
    /\ task[w].ctx.useCache /\ task[w].ctx.playAfterDownload
    /\ task[w].ctx.startOffset = CHUNK_BYTES
    /\ task[w].pos = CHUNK_BYTES
    /\ ~ttsPaused

\* C24: 'c' with ttsBusy false changes no Worker flag, nothing of the Cache
\* Entry and nothing of the Playback Cursor.
C24_IdleCancelNoOp ==
  [][(~ttsBusy /\ KeyCancel) => UNCHANGED <<flagVars, cacheVars, cursorVars>>]_vars

\* C24 as the code has it: 'c' with ttsBusy false leaves ttsBusy,
\* ttsCancelRequested, ttsPlaybackActive, ttsPrefetchPending, the Cache
\* Entry, the file and the tasks alone, asks for no job, and clears ttsPaused,
\* ttsPauseRequested and the Playback Cursor.
C24_IdleCancelForgetsPause ==
  [][(~ttsBusy /\ KeyCancel)
       => /\ UNCHANGED <<ttsBusy, ttsCancelRequested, ttsPlaybackActive,
                         ttsPrefetchPending, cacheVars, sdVars, task, call>>
          /\ ~ttsPaused' /\ ~ttsPauseRequested'
          /\ ttsResumeOffset' = 0 /\ ttsResumePath' = NoPath]_vars

\* 'c' was pressed over a paused clip whose status had not been shown yet:
\* the pause is gone, the cache is still ready.
C24_Witness ==
  /\ ~ttsBusy /\ ~ttsPaused /\ ttsResumeOffset = 0 /\ ttsResumePath = NoPath
  /\ ttsAudioReady /\ sdFile.exists
  /\ ttsPendingStatus = "Voice paused" /\ ttsStatusDirty
  /\ statusBaseLine = "Voice idle"

FlagsClear ==
  /\ ~ttsCancelRequested /\ ~ttsPauseRequested
  /\ ~ttsPlaybackActive /\ ~ttsBusy

NoTask == \A w \in Tasks : task[w].pc = "dead"

\* C25: the last step of a task leaves ttsCancelRequested,
\* ttsPauseRequested, ttsPlaybackActive and ttsBusy false, and they stay
\* false while no task exists, whatever the foreground does short of a
\* launch by startTtsTask.
C25_FlagsClearAfterExit ==
  [][/\ \A w \in Tasks :
          (task[w].pc = "exit_flags" /\ task'[w].pc = "dead") => FlagsClear'
     /\ (NoTask /\ NoTask' /\ FlagsClear
         /\ \A c \in Callers : call[c].pc # "task_set")
        => FlagsClear']_vars

\* The job of t called downloadTtsAudio and got false.
DownloadFailed(t) == ~t.ctx.useCache /\ ~t.ok

\* C26: a job whose download failed leaves, once it is back to Idle, the
\* Cache Entry not ready and no file at the cache path.
C26_FailedDownloadLeavesNothing ==
  \A w \in Tasks :
    (BackToIdle(w) /\ DownloadFailed(task[w]))
      => ~ttsAudioReady /\ ~sdFile.exists

\* C27: the player returns paused only from a pass in which the speaker
\* reported nothing queued, and once it has latched a pause request it reads
\* no further chunk and submits none.
C27_PauseDrains ==
  [][\A w \in Tasks :
       /\ (task[w].pc \in PlayPcs /\ task'[w].pc = "post_play"
           /\ task'[w].paused)
          => speaker = 0
       /\ (task[w].pc \in PlayPcs /\ task[w].pausePending)
          => /\ task'[w].pc \in {"pl_top", "post_play"}
             /\ task'[w].pos = task[w].pos
             /\ hist'.played = hist.played]_vars

\* The player has returned paused in the middle of the file: what it had
\* submitted has played out.
C27_Witness ==
  \E w \in Tasks :
    /\ task[w].pc = "post_play" /\ task[w].paused /\ task[w].pausePending
    /\ task[w].pos = CHUNK_BYTES /\ sdFile.size = MaxBody
    /\ hist.played = Ramp(CHUNK_BYTES)
    /\ speaker = 0

NoPauseRecorded ==
  ~ttsPaused /\ ttsResumeOffset = 0 /\ ttsResumePath = NoPath

\* C28: a job that a cancel was requested against at any moment before its
\* Worker released ttsBusy leaves no pause recorded: ttsPaused is false and
\* the resume offset and path are cleared.
C28_CancelBeatsPause ==
  \A w \in Tasks :
    (BackToIdle(w) /\ task[w].cancelAny) => NoPauseRecorded

\* The loop of playTtsFromSD (3154-3246).
LoopPcs == {"pl_top", "pl_fill", "pl_submit"}

\* The player of t has returned from its loop by the test of lines 3229-3231,
\* and neither a cancel request nor a write of the foreground to the file
\* fell into the job.
PlayedOut(t) ==
  /\ t.pc = "post_play" /\ t.end = "done" /\ t.fileDone
  /\ ~t.cancelAny /\ ~t.touched

C30_PlayerCleansUp ==
  [][\A w \in Tasks :
       (task[w].pc \in PlayPcs /\ task'[w].pc = "post_play")
         => /\ task'[w].alloc = 0
            /\ \A i \in 1..BUFFER_COUNT : ~task'[w].inUse[i]
            /\ task'[w].handle = "none"
            /\ speaker' = 0]_vars

\* The player has left its loop at the cancel check before a submission
\* (3197-3200), after chunks had been submitted from its buffers.
C30_Witness ==
  \E w \in Tasks :
    /\ task[w].pc = "post_play" /\ task[w].end = "cancel_mid"
    /\ hist.played # <<>>
    /\ task[w].alloc = 0 /\ task[w].handle = "none" /\ speaker = 0

\* The three records of the buffers in flight agree.
Counted(t) ==
  /\ t.recordedInFlight = Len(t.inFlightOrder)
  /\ t.recordedInFlight = Cardinality({i \in 1..BUFFER_COUNT : t.inUse[i]})
  /\ t.recordedInFlight <= BUFFER_COUNT
  /\ \A k \in 1..Len(t.inFlightOrder) : t.inUse[t.inFlightOrder[k]]

\* q is what is left of p after buffers were taken from its front.
IsSuffix(q, p) ==
  /\ Len(q) <= Len(p)
  /\ q = SubSeq(p, Len(p) - Len(q) + 1, Len(p))

\* C31: in the loop of the player recordedInFlight is the length of
\* inFlightOrder and the number of buffers marked inUse, at most
\* BUFFER_COUNT; the speaker holds no more buffers than are marked, so the
\* buffers it holds (the ones submitted last) are marked; buffers leave the
\* queue from its front only, and a buffer that is submitted was not marked.
C31_BuffersInFlight ==
  [][\A w \in Tasks :
       LET t == task[w]  u == task'[w] IN
       /\ u.pc \in LoopPcs
            => Counted(u) /\ speaker' <= u.recordedInFlight
       /\ (t.pc \in LoopPcs /\ u.pc \in LoopPcs)
            => \/ IsSuffix(u.inFlightOrder, t.inFlightOrder)
               \/ \E i \in 1..BUFFER_COUNT :
                    /\ ~t.inUse[i]
                    /\ u.inFlightOrder = Append(t.inFlightOrder, i)]_vars

\* Every buffer is in flight; the speaker has finished with the first.
C31_Witness ==
  \E w \in Tasks :
    /\ task[w].pc = "pl_top"
    /\ task[w].inFlightOrder = <<1, 2, 3>>
    /\ task[w].recordedInFlight = BUFFER_COUNT
    /\ \A i \in 1..BUFFER_COUNT : task[w].inUse[i]
    /\ speaker < BUFFER_COUNT

\* C32: a job whose player had a chunk rejected by the speaker is, once it
\* is back to Idle, where a cancelled playback ends: the speaker holds
\* nothing, the buffers are released, no pause is recorded, the Cache Entry
\* and the file are as they were when playback began, ttsBusy is false.
C32_QueueRejection ==
  \A w \in Tasks :
    LET t == task[w] IN
    (BackToIdle(w) /\ t.end = "queue" /\ ~t.touched)
      => /\ speaker = 0
         /\ t.alloc = 0 /\ t.handle = "none"
         /\ NoPauseRecorded
         /\ CacheEntry = t.snapPlay[1]
         /\ sdFile = t.snapPlay[2]
         /\ ~ttsBusy

\* The second chunk of a clip was rejected and the job has ended.
C32_Witness ==
  \E w \in Tasks :
    /\ BackToIdle(w) /\ task[w].end = "queue"
    /\ hist.played = Ramp(CHUNK_BYTES)
    /\ ttsAudioReady /\ FileComplete(sdFile)
    /\ ~ttsBusy

\* C33: a chunked body with broken framing (a size line that is no
\* hexadecimal number, a negative size, the connection closed before the
\* last chunk) is reported as a failure by the reader, so that the download
\* fails and removes the file.
C33_MalformedRejected ==
  (hist.io.kind = "malformed" /\ hist.io.done) => ~hist.io.ok

\* C34: a job that was sent a cancel request in its download before it had
\* read a byte of the body reads at most one more buffer of it.
C34_CancelStopsDownload ==
  \A w \in Tasks :
    (task[w].cancelUnread /\ task[w].pc \in DownloadPcs \cup {"dl_check"})
      => task[w].sent <= BUF_SIZE

\* A step taken in the Worker's execution context: the task moves on in its
\* own code, or in a call it makes itself.
InWorkerContext ==
  \E w \in Tasks :
    \/ task[w].pc # "dead" /\ task'[w].pc # task[w].pc
    \/ call'[w] # call[w]

\* C35: no step taken in the Worker's context writes the display status;
\* the statuses of the deferred prefetch the exiting Worker launches included.
C35_WorkerNeverWritesDisplay ==
  [][InWorkerContext => statusBaseLine' = statusBaseLine]_vars
\* The Worker w has the cache file open, for writing or for reading.
HoldsFile(w) == task[w].handle \in {"write", "read"}

\* C36: while a Worker has the cache file open, neither clearTtsCache at the
\* prompt nor the model request ends the storage session or removes the file:
\* the Worker's handle stays valid and the file stays as it is.
C36_StorageKeptUnderWorker ==
  [][(clearTtsCache \/ \E r \in Replies : NewReply(r))
       => \A w \in Tasks :
            HoldsFile(w) => /\ task'[w].handle = task[w].handle
                            /\ sdFile' = sdFile]_vars
\* C37: the model request of the foreground never takes the shared HTTPS
\* client from a Worker that is connected through it for its download.
C37_ClientNotShared ==
  [][(\E r \in Replies : NewReply(r))
       => \A w \in Tasks : task[w].conn => task'[w].conn]_vars
\* The foreground writes a cancel request.
CancelRequest == CancelWrite \/ EnterWrite \/ ReplyCancel

\* A job that is past line 3265, where a Worker clears the cancel flag.
Started(w) == task[w].pc \in RunPcs \ {"start"}

\* C38: a job is launched with both request flags false, and a request the
\* foreground writes reaches no job that was launched after the foreground
\* decided to make it: a cancel no job of that kind that runs, a pause no
\* job of that kind that plays.
C38_RequestsStayWithTheirJob ==
  [][/\ \A w \in Tasks :
          (task[w].pc = "dead" /\ task'[w].pc = "start")
            => ~ttsCancelRequested' /\ ~ttsPauseRequested'
     /\ CancelRequest => \A w \in Tasks : Started(w) => ~task[w].late
     /\ PauseWrite
          => \A w \in Tasks :
               (Started(w) /\ task[w].ctx.playAfterDownload) => ~task[w].late
    ]_vars
\* C39: a launch whose task creation fails is rolled back: ttsBusy and
\* ttsPlaybackActive are false, no task was added, and ttsPaused and the
\* resume offset and path are what they were before the call.
C39_FailedLaunchRolledBack ==
  [][\A c \in Callers :
       TaskCreateFails(c)
         => /\ ~ttsBusy' /\ ~ttsPlaybackActive'
            /\ task' = task
            /\ <<ttsPaused, ttsResumeOffset, ttsResumePath>>'
                 = <<ttsPaused, ttsResumeOffset, ttsResumePath>>]_vars
\* The operations in progress: the contexts between their ledEnterBusy and
\* their ledExitBusy.
InProgress == {u \in LedUsers : hist.led.pc[u] = "busy"}

\* No context is inside ledEnterBusy or ledExitBusy.
LedQuiet == \A u \in LedUsers : hist.led.pc[u] \in {"idle", "busy"}

\* C40: with no call of ledEnterBusy or ledExitBusy under way, the busy depth
\* is the number of operations in progress (0 on a board without LED): 0
\* when none is, never stuck above and never below.
C40_BusyDepthBalanced ==
  LedQuiet => hist.led.ledBusyDepth = (IF hist.led.ledAvailable
                                       THEN Cardinality(InProgress) ELSE 0)
====
